---- MODULE Spec2Model ----
(***************************************************************************)
(* Scheduled-post publishing of my-nostr-app: the PublishingLockManager   *)
(* over localStorage (src/hooks/usePublishingLock.ts), the publish        *)
(* workflow (src/hooks/usePublishScheduledPost.ts), the status updater    *)
(* (useUpdateScheduledPostStatus), the record store (useScheduledPosts)   *)
(* and the scheduler loop (useSchedulerService.checkAndPublishPosts).     *)
(*                                                                         *)
(* Time is counted in minutes.  Every execution context (browser tab) is  *)
(* a process with its own session token and its own react-query cache;    *)
(* all of them share one localStorage and one relay log.  A localStorage  *)
(* getItem and the setItem that follows it are two steps, so contexts of  *)
(* different tabs interleave between them.  Code between two awaits of    *)
(* one tab runs without real time passing.                                 *)
(***************************************************************************)
EXTENDS Integers, Sequences, FiniteSets, TLC

\* ---------------------------------------------------------------- bounds
\* ticks the contexts start, and events the publish primitive accepts
MaxTicks == 2
MaxEvents == 4
\* rejections of the decrypt and publish capabilities, and cancellations
\* by the user
MaxFailures == 1
MaxCancels == 1
\* lock-manager calls made, and minutes observed, when the
\* PublishingLockManager is exercised on its own
MaxCalls == 4
MaxAge == 6
\* minutes observed after the lock timeout counted from the due instant
MaxLate == 1
MaxTagLen == 2
\* events in one reply to a count utility
MaxLikes == 2

\* ------------------------------------------------------ program constants
\* minutes; usePublishingLock.ts:7  (5 * 60 * 1000 ms)
LOCK_TIMEOUT == 5
\* minutes; usePublishingLock.ts:409  (5 * 60 * 1000 ms)
GRACE_PERIOD == 5
\* minutes; usePublishingLock.ts:200  (24 * 60 * 60 * 1000 ms)
PUBLISHED_RETENTION == 1440
\* usePublishingLock.ts:98
MAX_PUBLISHED_POSTS == 1000
\* usePublishScheduledPost.ts:8
SCHEDULED_POST_KIND == 36611
\* milliseconds; getNoteLikeCount.ts:57 and getFollowerCount (part_006:47)
DEFAULT_TIMEOUT == 5000

\* the number NaN, a value that no tag of the inputs parses to
NaN == 0 - 1000000

isNaN(number) == number = NaN

\* the time value of an Invalid Date: a comparison with it is false
InvalidDate == NaN

\* ------------------------------------------------------------- universe
\* invocations of checkAndPublishPosts: a and c run in the tab of session sA
\* (a timer tick or an effect restart starts one while the other is still
\* awaiting), b runs in the tab of session sB; m is the click handler of a
\* dialog in the tab of session sA that calls publishPost itself
Procs == {"a", "b", "c", "m"}
\* the contexts that call the workflow from a dialog (EventDialogActions)
Dialogs == {"m"}
\* the session token drawn in the PublishingLockManager constructor
SessionOf(p) == IF p = "b" THEN "sB" ELSE "sA"
Sessions == {SessionOf(p) : p \in Procs}
\* the logged-in identity (user.pubkey), the same in every tab
User == "alice"
\* scheduled instant of the post created by the authoring flow
DueAt == 1
\* the instants at which contexts are observed: the due instant, the last
\* instant of the lock timeout and of the grace window counted from it, and
\* the first instant after both
Instants == {DueAt} \cup (DueAt + LOCK_TIMEOUT)..(DueAt + LOCK_TIMEOUT + MaxLate)

VARIABLES
  now,             \* wall clock, minutes
  storageOk,       \* FALSE: every localStorage access throws
  locks,           \* localStorage['nostr:publishing-locks']
  publishedPosts,  \* localStorage['nostr:published-posts']
  log,             \* the relay log of kind-36611 events, oldest first
  nextId,          \* next event id the publish primitive assigns
  qc,              \* per session: query data ['scheduled-posts', pubkey]
  primary,         \* the primary-content publish calls made so far
  pc,              \* per process: position in scheduler loop / workflow
  ticks,           \* ticks started so far
  failures,        \* capability calls rejected so far
  cand,            \* per process: postsToPublish still to iterate
  cur,             \* per process: the post handed to publishPost
  rd,              \* per process: list computed from the last storage read
  todo,            \* per process: lock-manager calls still to run
  err,             \* per process: message of the error thrown by the workflow
  pubId,           \* per process: publishedEvent.id (0: none)
  upd,             \* per process: outcome of the updatePostStatus call
  liveAtTick,      \* per process: slugs whose content was live at tick start
  callCount,       \* per process: lock-manager calls made directly
  ret,             \* per process: the last such call and what it returned
  timer,           \* per process: the interval timer of its scheduler loop
  count            \* the call of a count utility: its arguments and outcome

vars == <<now, storageOk, locks, publishedPosts, log, nextId, qc, primary,
          pc, ticks, failures, cand, cur, rd, todo, err, pubId, upd,
          liveAtTick, callCount, ret, timer, count>>

\* ------------------------------------------------------ error messages
\* A message is its sequence of words; String.includes of a phrase is the
\* search of the phrase's words as a contiguous run.
NoError == <<>>
ErrAlreadyPublishedAs == <<"Post", "was", "already", "published", "as", "event">>
ErrBeingPublished == <<"Post", "is", "being", "published", "by", "another", "session">>
ErrStatusPublished == <<"Post", "status", "is", "already", "published">>
ErrHasEventId == <<"Post", "already", "has", "published", "event", "ID">>
ErrLostLock == <<"Lost", "publishing", "lock", "during", "verification">>
ErrDecrypt == <<"Failed", "to", "decrypt", "scheduled", "post", "content">>
\* whatever the publish capability (useNostrPublish) rejects with
ErrRelay == <<"relay", "rejected", "event">>

includes(msg, phrase) ==
  \E i \in 1..(Len(msg) - Len(phrase) + 1) :
     SubSeq(msg, i, i + Len(phrase) - 1) = phrase

\* the catch without its 'already published' test
isAlreadyPublishedError_NoAlreadyPublished(errorMessage) ==
  \/ includes(errorMessage, <<"being", "published">>)
  \/ includes(errorMessage, <<"published", "event", "ID">>)

\* the scheduler's catch: errors that are not turned into status failed
isAlreadyPublishedError(errorMessage) ==
  \/ includes(errorMessage, <<"already", "published">>)
  \/ includes(errorMessage, <<"being", "published">>)
  \/ includes(errorMessage, <<"published", "event", "ID">>)

\* ------------------------------------------------------- record store
\* ------------------------------------------------- tag values as text
\* a tag value is a sequence of characters, <<>> when the tag is absent or empty
DigitChars == <<"0", "1", "2", "3", "4", "5", "6", "7", "8", "9">>

IsDigit(c) == c \in {"0", "1", "2", "3", "4", "5", "6", "7", "8", "9"}

DigitValue(c) ==
  CASE c = "0" -> 0 [] c = "1" -> 1 [] c = "2" -> 2 [] c = "3" -> 3
    [] c = "4" -> 4 [] c = "5" -> 5 [] c = "6" -> 6 [] c = "7" -> 7
    [] c = "8" -> 8 [] c = "9" -> 9

\* Number.prototype.toString() of an integer
RECURSIVE toString(_)
toString(n) ==
  IF n < 0 THEN <<"-">> \o toString(0 - n)
  ELSE IF n < 10 THEN <<DigitChars[n + 1]>>
  ELSE toString(n \div 10) \o <<DigitChars[(n % 10) + 1]>>

\* the value of the longest prefix of digits, read in base ten
RECURSIVE ParseDigits(_, _)
ParseDigits(str, acc) ==
  IF str = <<>> \/ ~IsDigit(Head(str)) THEN acc
  ELSE ParseDigits(Tail(str), acc * 10 + DigitValue(Head(str)))

RECURSIVE TrimStart(_)
TrimStart(str) ==
  IF str # <<>> /\ Head(str) = " " THEN TrimStart(Tail(str)) ELSE str

\* parseInt(string): leading blanks and one sign are skipped, the digits that
\* follow are read and whatever comes after them is ignored; NaN without a digit
parseInt(str) ==
  LET s == TrimStart(str)
      signed == s # <<>> /\ Head(s) \in {"-", "+"}
      body == IF signed THEN Tail(s) ELSE s
  IN IF body = <<>> \/ ~IsDigit(Head(body)) THEN NaN
     ELSE IF signed /\ Head(s) = "-" THEN 0 - ParseDigits(body, 0)
     ELSE ParseDigits(body, 0)

\* new Date(seconds * 1000).getTime(), in seconds
Date(seconds) == IF isNaN(seconds) THEN InvalidDate ELSE seconds

NoPost == [id |-> 0, d |-> "", content |-> "", scheduledAt |-> 0,
           postKind |-> 0, title |-> "", status |-> "", publishedEventId |-> 0,
           pubkey |-> ""]

\* a kind-36611 event; a tag that is absent is "" (0 for published_event_id);
\* created_at is the position of the event in the log
Event(id, pubkey, content, d, scheduledAt, postKind, status, pubEventId, title) ==
  [id |-> id, kind |-> SCHEDULED_POST_KIND, pubkey |-> pubkey,
   content |-> content, d |-> d,
   scheduled_at |-> toString(scheduledAt), post_kind |-> toString(postKind),
   status |-> status,
   published_event_id |-> pubEventId, title |-> title]

validateScheduledPost(event) ==
  /\ event.kind = SCHEDULED_POST_KIND
  /\ event.d # ""
  /\ event.scheduled_at # <<>>
  /\ event.post_kind # <<>>
  /\ LET timestamp == parseInt(event.scheduled_at)
     IN ~(isNaN(timestamp) \/ timestamp <= 0)
  /\ LET kind == parseInt(event.post_kind)
     IN ~(isNaN(kind) \/ kind <= 0)

parseScheduledPost(event) ==
  [id |-> event.id, d |-> event.d, content |-> event.content,
   scheduledAt |-> Date(parseInt(IF event.scheduled_at = <<>> THEN <<"0">>
                                 ELSE event.scheduled_at)),
   postKind |-> parseInt(IF event.post_kind = <<>> THEN <<"1">>
                         ELSE event.post_kind),
   title |-> event.title,
   status |-> IF event.status = "" THEN "scheduled" ELSE event.status,
   publishedEventId |-> event.published_event_id,
   pubkey |-> event.pubkey]

RECURSIVE MapParse(_)
MapParse(events) ==
  IF events = <<>> THEN <<>>
  ELSE <<parseScheduledPost(Head(events))>> \o MapParse(Tail(events))

\* Array.prototype.sort by scheduledAt, stable
RECURSIVE InsertByScheduledAt(_, _)
InsertByScheduledAt(post, sorted) ==
  IF sorted = <<>> THEN <<post>>
  ELSE IF Head(sorted).scheduledAt <= post.scheduledAt
       THEN <<Head(sorted)>> \o InsertByScheduledAt(post, Tail(sorted))
       ELSE <<post>> \o sorted

RECURSIVE SortByScheduledAt(_)
SortByScheduledAt(posts) ==
  IF posts = <<>> THEN <<>>
  ELSE InsertByScheduledAt(posts[Len(posts)],
                           SortByScheduledAt(SubSeq(posts, 1, Len(posts) - 1)))

\* queryFn of useScheduledPosts applied to the fetched events
useScheduledPosts(events) ==
  SortByScheduledAt(MapParse(SelectSeq(events, validateScheduledPost)))

\* What nostr.query may return for the owner's kind-36611 events: every
\* revision the log stores, or only the newest one of each address
\* (pubkey, d).
IsNewestOfAddress(events, i) ==
  \A j \in (i + 1)..Len(events) :
     ~(events[j].pubkey = events[i].pubkey /\ events[j].d = events[i].d)

RECURSIVE NewestOnly(_, _)
NewestOnly(events, i) ==
  IF i > Len(events) THEN <<>>
  ELSE (IF IsNewestOfAddress(events, i) THEN <<events[i]>> ELSE <<>>)
          \o NewestOnly(events, i + 1)

QueryResults == {log, NewestOnly(log, 1)}

\* currentPosts?.find(p => p.id === postId)
FindPost(posts, postId) ==
  IF \E i \in 1..Len(posts) : posts[i].id = postId
  THEN posts[CHOOSE i \in 1..Len(posts) :
               /\ posts[i].id = postId
               /\ \A j \in 1..(i - 1) : posts[j].id # postId]
  ELSE NoPost

Slugs == {log[i].d : i \in 1..Len(log)}

\* ------------------------------------------- PublishingLockManager
\* localStorage access; a throwing getItem/JSON.parse yields [], a
\* throwing setItem is ignored
getLocks == IF storageOk THEN locks ELSE <<>>

setLocks(newLocks) == locks' = IF storageOk THEN newLocks ELSE locks

getPublishedPosts == IF storageOk THEN publishedPosts ELSE <<>>

setPublishedPosts(posts) ==
  publishedPosts' = IF storageOk THEN posts ELSE publishedPosts

Lock(postId, timestamp, sessionId, pubkey) ==
  [postId |-> postId, timestamp |-> timestamp, sessionId |-> sessionId,
   pubkey |-> pubkey]

PublishedPost(postId, publishedEventId, timestamp, pubkey) ==
  [postId |-> postId, publishedEventId |-> publishedEventId,
   timestamp |-> timestamp, pubkey |-> pubkey]

\* first index of a sequence satisfying a test (Array.prototype.find), 0: none
FirstIndex(s, Test(_)) ==
  IF \E i \in 1..Len(s) : Test(s[i])
  THEN CHOOSE i \in 1..Len(s) : Test(s[i]) /\ \A j \in 1..(i - 1) : ~Test(s[j])
  ELSE 0

\* a lookup that never finds an entry
isAlreadyPublished_Never(stored, postId, pubkey) == 0

\* isAlreadyPublished: the cached publishedEventId, 0 for null
isAlreadyPublished(stored, postId, pubkey) ==
  LET i == FirstIndex(stored, LAMBDA e : e.postId = postId /\ e.pubkey = pubkey)
  IN IF i = 0 THEN 0 ELSE stored[i].publishedEventId

\* Array.prototype.sort((a, b) => b.timestamp - a.timestamp), which is stable:
\* the entries of the newest timestamp in their order, then the rest likewise
RECURSIVE ByTimestampDesc(_, _)
ByTimestampDesc(s, stamps) ==
  IF stamps = {} THEN <<>>
  ELSE LET newest == CHOOSE t \in stamps : \A u \in stamps : u <= t
       IN SelectSeq(s, LAMBDA e : e.timestamp = newest)
            \o ByTimestampDesc(s, stamps \ {newest})

SortByTimestampDesc(s) ==
  ByTimestampDesc(s, {s[i].timestamp : i \in 1..Len(s)})

\* a markAsPublished that cuts the list at the cap without sorting it
markAsPublished_NoSort(stored, postId, publishedEventId, pubkey, t) ==
  LET filtered == SelectSeq(stored, LAMBDA e : ~(e.postId = postId /\ e.pubkey = pubkey))
      pushed == Append(filtered, PublishedPost(postId, publishedEventId, t, pubkey))
  IN IF Len(pushed) > MAX_PUBLISHED_POSTS
     THEN SubSeq(pushed, 1, MAX_PUBLISHED_POSTS)
     ELSE pushed

\* a markAsPublished that drops the old entry and records none
markAsPublished_NoPush(stored, postId, publishedEventId, pubkey, t) ==
  SelectSeq(stored, LAMBDA e : ~(e.postId = postId /\ e.pubkey = pubkey))

\* markAsPublished: the list handed to setPublishedPosts
markAsPublished(stored, postId, publishedEventId, pubkey, t) ==
  LET filtered == SelectSeq(stored, LAMBDA e : ~(e.postId = postId /\ e.pubkey = pubkey))
      pushed == Append(filtered, PublishedPost(postId, publishedEventId, t, pubkey))
  IN IF Len(pushed) > MAX_PUBLISHED_POSTS
     THEN SubSeq(SortByTimestampDesc(pushed), 1, MAX_PUBLISHED_POSTS)
     ELSE pushed

isExpired_AtTimeout(lock, t) == t - lock.timestamp >= LOCK_TIMEOUT

\* acquireLock / ownsLock: now - lock.timestamp > LOCK_TIMEOUT
isExpired(lock, t) == t - lock.timestamp > LOCK_TIMEOUT

\* acquireLock: validLocks
validLocks(stored, t) == SelectSeq(stored, LAMBDA lock : ~isExpired(lock, t))

\* an existingLock that also finds the entry of the calling session
existingLock_AnySession(stored, postId, pubkey, sessionId, t) ==
  FirstIndex(validLocks(stored, t),
             LAMBDA lock : lock.postId = postId /\ lock.pubkey = pubkey) # 0

\* acquireLock: existingLock is defined
existingLock(stored, postId, pubkey, sessionId, t) ==
  FirstIndex(validLocks(stored, t),
             LAMBDA lock : /\ lock.postId = postId
                           /\ lock.pubkey = pubkey
                           /\ lock.sessionId # sessionId) # 0

\* an acquireLock that leaves the earlier entry of its session in the list
acquireLock_KeepsOwn(stored, postId, pubkey, sessionId, t) ==
  Append(validLocks(stored, t), Lock(postId, t, sessionId, pubkey))

\* acquireLock: the list handed to setLocks when no other session holds it
acquireLock(stored, postId, pubkey, sessionId, t) ==
  Append(SelectSeq(validLocks(stored, t),
                   LAMBDA lock : ~(/\ lock.postId = postId
                                   /\ lock.pubkey = pubkey
                                   /\ lock.sessionId = sessionId)),
         Lock(postId, t, sessionId, pubkey))

\* a releaseLock that removes the entries of every session for the post
releaseLock_AnySession(stored, postId, pubkey, sessionId) ==
  SelectSeq(stored, LAMBDA lock : ~(lock.postId = postId /\ lock.pubkey = pubkey))

\* a releaseLock that writes back what it read
releaseLock_KeepsEntry(stored, postId, pubkey, sessionId) == stored

\* releaseLock: the list handed to setLocks
releaseLock(stored, postId, pubkey, sessionId) ==
  SelectSeq(stored, LAMBDA lock : ~(/\ lock.postId = postId
                                    /\ lock.pubkey = pubkey
                                    /\ lock.sessionId = sessionId))

\* an ownsLock that does not look at the age of the entry
ownsLock_IgnoresAge(stored, postId, pubkey, sessionId, t) ==
  LET i == FirstIndex(stored, LAMBDA lock : /\ lock.postId = postId
                                            /\ lock.pubkey = pubkey
                                            /\ lock.sessionId = sessionId)
  IN IF i = 0 THEN "none" ELSE "owned"

\* ownsLock: "none" (no entry of this session), "expired" or "owned"
ownsLock(stored, postId, pubkey, sessionId, t) ==
  LET i == FirstIndex(stored, LAMBDA lock : /\ lock.postId = postId
                                            /\ lock.pubkey = pubkey
                                            /\ lock.sessionId = sessionId)
  IN IF i = 0 THEN "none"
     ELSE IF isExpired(stored[i], t) THEN "expired" ELSE "owned"

\* cleanup: the lists handed to setLocks and setPublishedPosts
cleanupLocks(stored, t) ==
  SelectSeq(stored, LAMBDA lock : t - lock.timestamp <= LOCK_TIMEOUT)

\* a cleanup that also drops the cache entries exactly 24 hours old
cleanupPublished_Strict(stored, t) ==
  SelectSeq(stored, LAMBDA post : t - post.timestamp < PUBLISHED_RETENTION)

cleanupPublished(stored, t) ==
  SelectSeq(stored, LAMBDA post : t - post.timestamp <= PUBLISHED_RETENTION)

\* ------------------------------------------------- revisions of a post
\* The events the subsystem hands to publishEvent to revise a post: each is
\* built from the ScheduledPost snapshot the caller holds; the title tag is
\* pushed when the snapshot has a title.
\* usePublishScheduledPost: updatedScheduledEvent
publishedRevision(id, postToPublish, publishedEventId) ==
  Event(id, User, postToPublish.content, postToPublish.d,
        postToPublish.scheduledAt, postToPublish.postKind, "published",
        publishedEventId, postToPublish.title)

\* a status updater that writes the reference only when the caller passes it
statusRevision_DropsReference(id, scheduledPost, newStatus, publishedEventId) ==
  Event(id, User, scheduledPost.content, scheduledPost.d,
        scheduledPost.scheduledAt, scheduledPost.postKind, newStatus,
        publishedEventId, scheduledPost.title)

\* useUpdateScheduledPostStatus: the published_event_id tag is the argument
\* when one is passed (0: none), else the one of the snapshot
statusRevision(id, scheduledPost, newStatus, publishedEventId) ==
  Event(id, User, scheduledPost.content, scheduledPost.d,
        scheduledPost.scheduledAt, scheduledPost.postKind, newStatus,
        IF publishedEventId # 0 THEN publishedEventId
        ELSE scheduledPost.publishedEventId,
        scheduledPost.title)

\* useCancelScheduledPost
cancelRevision(id, scheduledPost) ==
  Event(id, User, scheduledPost.content, scheduledPost.d,
        scheduledPost.scheduledAt, scheduledPost.postKind, "cancelled",
        scheduledPost.publishedEventId, scheduledPost.title)

\* ------------------------------------------------------------ processes
\* positions at which a context is suspended (idle timer, pending promise)
AwaitPcs == {"idle", "decrypt", "publish", "statusUpdate", "updatePostStatus"}

\* JavaScript runs to completion: a context runs its synchronous code only
\* while no other context of the same tab is inside synchronous code
CanRun(p) ==
  \A q \in Procs \ {p} : SessionOf(q) = SessionOf(p) => pc[q] \in AwaitPcs

\* a catch block that lets a genuine failure end the tick
Caught_EndsTick(message) ==
  IF isAlreadyPublishedError(message) THEN "loop" ELSE "idle"

\* checkAndPublishPosts, catch block: a caught error either continues the
\* loop or goes on to updatePostStatus
Caught(message) ==
  IF isAlreadyPublishedError(message) THEN "loop" ELSE "updatePostStatus"

\* where control goes when the workflow throws before any lock-manager call
\* is left to run: the catch block of the loop, or onError of the dialog
Thrown(p, message) == IF p \in Dialogs THEN "idle" ELSE Caught(message)

\* the workflow throws `message` (NoError: returns) after running the
\* lock-manager calls `calls`
RunCalls(p, calls, message) ==
  /\ todo' = [todo EXCEPT ![p] = calls]
  /\ err' = [err EXCEPT ![p] = message]
  /\ pc' = [pc EXCEPT ![p] = "storage_get"]

\* a scheduler loop that goes on to the next post whatever the workflow threw
AfterCalls_Continues(p) == "loop"

\* where the scheduler loop continues when the workflow's calls are done
AfterCalls(p) ==
  IF p \in Dialogs THEN "idle"
  ELSE IF err[p] = NoError THEN "loop" ELSE Caught(err[p])

\* no lock-manager call made directly yet
NoCall == [call |-> "", postId |-> 0, value |-> ""]

\* a capability call is rejected
Reject ==
  /\ failures < MaxFailures
  /\ failures' = failures + 1

\* no count utility called yet
NoCount == [pc |-> "idle", fn |-> "", id |-> <<>>, timeout |-> 0,
            queries |-> 0, reply |-> <<>>, outcome |-> <<>>]

\* the post the user scheduled, due at DueAt
FirstEvent == Event(1, User, "nip44", "d1", DueAt, 1, "scheduled", 0, "title")

\* the state at instant t with the events on the relays, the query result
\* posts held by every tab, and the lock list held and the published cache
\* stored in localStorage
Stored(t, events, posts, held, stored) ==
  /\ now = t
  /\ storageOk \in BOOLEAN
  /\ locks = IF storageOk THEN held ELSE <<>>
  /\ publishedPosts = IF storageOk THEN stored ELSE <<>>
  /\ log = events
  /\ nextId = Len(events) + 1
  /\ qc = [s \in Sessions |-> posts]
  /\ primary = {}
  /\ pc = [p \in Procs |-> "idle"]
  /\ ticks = 0
  /\ failures = 0
  /\ cand = [p \in Procs |-> <<>>]
  /\ cur = [p \in Procs |-> NoPost]
  /\ rd = [p \in Procs |-> <<>>]
  /\ todo = [p \in Procs |-> <<>>]
  /\ err = [p \in Procs |-> NoError]
  /\ pubId = [p \in Procs |-> 0]
  /\ upd = [p \in Procs |-> "none"]
  /\ liveAtTick = [p \in Procs |-> {}]
  /\ callCount = [p \in Procs |-> 0]
  /\ timer = [p \in Procs |-> "set"]
  /\ count = NoCount
  /\ ret = [p \in Procs |-> NoCall]

\* the same with no lock stored
Started(t, events, posts, stored) == Stored(t, events, posts, <<>>, stored)

\* the tabs have fetched the post and nothing is published yet
Created(t) == Started(t, <<FirstEvent>>, useScheduledPosts(<<FirstEvent>>), <<>>)

\* the tabs are open and the post has just become due
Init == Created(DueAt)

\* real time passes only while every context is suspended
Advance ==
  /\ \A p \in Procs : pc[p] \in AwaitPcs
  /\ \E t \in Instants :
        /\ t > now
        /\ \A u \in Instants : u > now => t <= u
        /\ now' = t
  /\ UNCHANGED <<storageOk, locks, publishedPosts, log, nextId, qc,
                 primary, pc, ticks, failures, cand, cur, rd, todo, err,
                 pubId, upd, liveAtTick,
                 callCount, ret, timer, count>>

\* a (re)fetch of the ['scheduled-posts', pubkey] query resolves in tab s
Refetch(s) ==
  /\ \A p \in Procs : SessionOf(p) = s => pc[p] \in AwaitPcs
  /\ \E events \in QueryResults :
        LET data == useScheduledPosts(events) IN
        /\ data # qc[s]
        /\ qc' = [qc EXCEPT ![s] = data]
  /\ UNCHANGED <<now, storageOk, locks, publishedPosts, log, nextId,
                 primary, pc, ticks, failures, cand, cur, rd, todo, err,
                 pubId, upd, liveAtTick,
                 callCount, ret, timer, count>>

\* useCancelScheduledPost: the user of tab s cancels a post shown as scheduled
Cancel(s) ==
  /\ \A p \in Procs : SessionOf(p) = s => pc[p] \in AwaitPcs
  /\ nextId <= MaxEvents
  /\ Cardinality({j \in 1..Len(log) : log[j].status = "cancelled"}) < MaxCancels
  /\ \E i \in 1..Len(qc[s]) :
        LET post == qc[s][i] IN
        /\ post.status = "scheduled"
        /\ log' = Append(log, cancelRevision(nextId, post))
  /\ nextId' = nextId + 1
  /\ UNCHANGED <<now, storageOk, locks, publishedPosts, qc, primary,
                 pc, ticks, failures, cand, cur, rd, todo, err, pubId,
                 upd, liveAtTick,
                 callCount, ret, timer, count>>

\* ------------------------------------------ checkAndPublishPosts (a tick)
\* a timer whose callback goes on firing after clearInterval
TimerFires_Cleared(p) == TRUE

\* setInterval(checkAndPublishPosts, checkInterval) fires until clearInterval
TimerFires(p) == timer[p] = "set"

\* the timer fires: cleanup() reads the locks
Tick(p) ==
  /\ pc[p] = "idle"
  /\ TimerFires(p)
  /\ CanRun(p)
  /\ ticks < MaxTicks
  /\ ticks' = ticks + 1
  /\ liveAtTick' = [liveAtTick EXCEPT ![p] = {c.d : c \in {x \in primary : x.id # 0}}]
  /\ rd' = [rd EXCEPT ![p] = cleanupLocks(getLocks, now)]
  /\ pc' = [pc EXCEPT ![p] = "cleanup_setLocks"]
  /\ UNCHANGED <<failures, now, storageOk, locks, publishedPosts, log, nextId, qc,
                 primary, cand, cur, todo, err, pubId, upd,
                 callCount, ret, timer, count>>

cleanup_setLocks(p) ==
  /\ pc[p] = "cleanup_setLocks"
  /\ setLocks(rd[p])
  /\ rd' = [rd EXCEPT ![p] = <<>>]
  /\ pc' = [pc EXCEPT ![p] = "cleanup_getPublished"]
  /\ UNCHANGED <<now, storageOk, publishedPosts, log, nextId, qc, primary,
                 ticks, failures, cand, cur, todo, err, pubId, upd,
                 liveAtTick,
                 callCount, ret, timer, count>>

cleanup_getPublished(p) ==
  /\ pc[p] = "cleanup_getPublished"
  /\ rd' = [rd EXCEPT ![p] = cleanupPublished(getPublishedPosts, now)]
  /\ pc' = [pc EXCEPT ![p] = "cleanup_setPublished"]
  /\ UNCHANGED <<now, storageOk, locks, publishedPosts, log, nextId, qc,
                 primary, ticks, failures, cand, cur, todo, err, pubId,
                 upd, liveAtTick,
                 callCount, ret, timer, count>>

cleanup_setPublished(p) ==
  /\ pc[p] = "cleanup_setPublished"
  /\ setPublishedPosts(rd[p])
  /\ rd' = [rd EXCEPT ![p] = <<>>]
  /\ pc' = [pc EXCEPT ![p] = "filter"]
  /\ UNCHANGED <<now, storageOk, locks, log, nextId, qc, primary,
                 ticks, failures, cand, cur, todo, err, pubId, upd,
                 liveAtTick,
                 callCount, ret, timer, count>>

\* a filter whose grace bound is exclusive
shouldPublish_StrictGrace(post, t, stored) ==
  /\ post.pubkey = User
  /\ post.status = "scheduled"
  /\ ~isNaN(post.scheduledAt) /\ post.scheduledAt <= t
  /\ ~isNaN(post.scheduledAt) /\ post.scheduledAt > t - GRACE_PERIOD
  /\ post.publishedEventId = 0
  /\ isAlreadyPublished(stored, post.id, User) = 0

\* the postsToPublish filter predicate
shouldPublish(post, t, stored) ==
  /\ post.pubkey = User
  /\ post.status = "scheduled"
  /\ ~isNaN(post.scheduledAt) /\ post.scheduledAt <= t
  /\ ~isNaN(post.scheduledAt) /\ post.scheduledAt >= t - GRACE_PERIOD
  /\ ~isNaN(post.scheduledAt)
  /\ post.publishedEventId = 0
  /\ isAlreadyPublished(stored, post.id, User) = 0

\* postsToPublish = posts.filter(...); return when it is empty
selectCandidates(p) ==
  /\ pc[p] = "filter"
  /\ LET stored == getPublishedPosts
         postsToPublish == SelectSeq(qc[SessionOf(p)],
                                     LAMBDA post : shouldPublish(post, now, stored))
     IN /\ cand' = [cand EXCEPT ![p] = postsToPublish]
        /\ pc' = [pc EXCEPT ![p] = IF postsToPublish = <<>> THEN "idle" ELSE "loop"]
        /\ liveAtTick' = [liveAtTick EXCEPT ![p] =
                             IF postsToPublish = <<>> THEN {} ELSE @]
  /\ UNCHANGED <<now, storageOk, locks, publishedPosts, log, nextId, qc,
                 primary, ticks, failures, cur, rd, todo, err, pubId, upd,
                 callCount, ret, timer, count>>

\* a final check that leaves the published cache out
skipCandidate_IgnoresCache(post, currentPosts, stored) ==
  LET currentPost == FindPost(currentPosts, post.id)
  IN \/ currentPost = NoPost
     \/ currentPost.status # "scheduled"
     \/ currentPost.publishedEventId # 0

\* the final check of the for loop: TRUE when the candidate is skipped
skipCandidate(post, currentPosts, stored) ==
  LET currentPost == FindPost(currentPosts, post.id)
  IN \/ currentPost = NoPost
     \/ currentPost.status # "scheduled"
     \/ currentPost.publishedEventId # 0
     \/ isAlreadyPublished(stored, post.id, User) # 0

\* one iteration of `for (const post of postsToPublish)` up to publishPost;
\* after the last one the tick ends
loopNext(p) ==
  /\ pc[p] = "loop"
  /\ CanRun(p)
  /\ IF cand[p] = <<>>
     THEN /\ pc' = [pc EXCEPT ![p] = "idle"]
          /\ cur' = [cur EXCEPT ![p] = NoPost]
          /\ err' = [err EXCEPT ![p] = NoError]
          /\ pubId' = [pubId EXCEPT ![p] = 0]
          /\ upd' = [upd EXCEPT ![p] = "none"]
          /\ liveAtTick' = [liveAtTick EXCEPT ![p] = {}]
          /\ UNCHANGED cand
     ELSE /\ cand' = [cand EXCEPT ![p] = Tail(@)]
          /\ UNCHANGED liveAtTick
          /\ IF skipCandidate(Head(cand[p]), qc[SessionOf(p)], getPublishedPosts)
             THEN UNCHANGED <<pc, cur, err, pubId, upd>>
             ELSE /\ cur' = [cur EXCEPT ![p] = Head(cand[p])]
                  /\ err' = [err EXCEPT ![p] = NoError]
                  /\ pubId' = [pubId EXCEPT ![p] = 0]
                  /\ upd' = [upd EXCEPT ![p] = "none"]
                  /\ pc' = [pc EXCEPT ![p] = "step1"]
  /\ UNCHANGED <<now, storageOk, locks, publishedPosts, log, nextId, qc,
                 primary, ticks, failures, rd, todo,
                 callCount, ret, timer, count>>

\* ------------------------------------ usePublishScheduledPost.mutationFn
\* STEP 1: the published-cache lookup; a hit throws before the try block
step1(p) ==
  /\ pc[p] = "step1"
  /\ IF isAlreadyPublished(getPublishedPosts, cur[p].id, User) # 0
     THEN /\ err' = [err EXCEPT ![p] = ErrAlreadyPublishedAs]
          /\ pc' = [pc EXCEPT ![p] = Thrown(p, ErrAlreadyPublishedAs)]
     ELSE /\ pc' = [pc EXCEPT ![p] = "acquireLock_get"]
          /\ UNCHANGED err
  /\ UNCHANGED <<now, storageOk, locks, publishedPosts, log, nextId, qc,
                 primary, ticks, failures, cand, cur, rd, todo, pubId,
                 upd, liveAtTick,
                 callCount, ret, timer, count>>

\* STEP 2, acquireLock up to its return false or its setLocks
acquireLock_get(p) ==
  /\ pc[p] = "acquireLock_get"
  /\ IF existingLock(getLocks, cur[p].id, User, SessionOf(p), now)
     THEN /\ err' = [err EXCEPT ![p] = ErrBeingPublished]
          /\ pc' = [pc EXCEPT ![p] = Thrown(p, ErrBeingPublished)]
          /\ UNCHANGED rd
     ELSE /\ rd' = [rd EXCEPT ![p] = acquireLock(getLocks, cur[p].id, User, SessionOf(p), now)]
          /\ pc' = [pc EXCEPT ![p] = "acquireLock_set"]
          /\ UNCHANGED err
  /\ UNCHANGED <<now, storageOk, locks, publishedPosts, log, nextId, qc,
                 primary, ticks, failures, cand, cur, todo, pubId, upd,
                 liveAtTick,
                 callCount, ret, timer, count>>

\* STEP 2, setLocks(filteredLocks) and return true; then STEP 3, the
\* re-check against the query cache
acquireLock_set(p) ==
  /\ pc[p] = "acquireLock_set"
  /\ setLocks(rd[p])
  /\ rd' = [rd EXCEPT ![p] = <<>>]
  /\ LET currentPost == FindPost(qc[SessionOf(p)], cur[p].id) IN
     IF currentPost # NoPost /\ currentPost.status = "published"
     THEN RunCalls(p, <<<<"release", 0>>, <<"release", 0>>>>, ErrStatusPublished)
     ELSE IF currentPost # NoPost /\ currentPost.publishedEventId # 0
     THEN RunCalls(p, <<<<"mark", currentPost.publishedEventId>>,
                        <<"release", 0>>, <<"release", 0>>>>, ErrHasEventId)
     ELSE /\ pc' = [pc EXCEPT ![p] = "ownsLock"]
          /\ UNCHANGED <<todo, err>>
  /\ UNCHANGED <<now, storageOk, publishedPosts, log, nextId, qc, primary,
                 ticks, failures, cand, cur, pubId, upd, liveAtTick,
                 callCount, ret, timer, count>>

\* STEP 4: ownsLock; an expired entry is released inside ownsLock, and the
\* finally block releases once more
verifyLock(p) ==
  /\ pc[p] = "ownsLock"
  /\ LET owns == ownsLock(getLocks, cur[p].id, User, SessionOf(p), now) IN
     IF owns = "owned"
     THEN /\ pc' = [pc EXCEPT ![p] = "decrypt"]
          /\ UNCHANGED <<todo, err>>
     ELSE IF owns = "expired"
     THEN RunCalls(p, <<<<"release", 0>>, <<"release", 0>>>>, ErrLostLock)
     ELSE RunCalls(p, <<<<"release", 0>>>>, ErrLostLock)
  /\ UNCHANGED <<now, storageOk, locks, publishedPosts, log, nextId, qc,
                 primary, ticks, failures, cand, cur, rd, pubId, upd,
                 liveAtTick,
                 callCount, ret, timer, count>>

\* await user.signer.nip44.decrypt and JSON.parse resolve or throw
decrypt(p) ==
  /\ pc[p] = "decrypt"
  /\ CanRun(p)
  /\ \/ /\ pc' = [pc EXCEPT ![p] = "publish"]
        /\ UNCHANGED <<todo, err, failures>>
     \/ /\ Reject
        /\ RunCalls(p, <<<<"release", 0>>>>, ErrDecrypt)
  /\ UNCHANGED <<now, storageOk, locks, publishedPosts, log, nextId, qc,
                 primary, ticks, cand, cur, rd, pubId, upd,
                 liveAtTick,
                 callCount, ret, timer, count>>

PrimaryCall(p, id) == [postId |-> cur[p].id, d |-> cur[p].d, proc |-> p, id |-> id]

\* await publishEvent({kind: draftPost.kind, ...}) resolves or rejects
publishPrimary(p) ==
  /\ pc[p] = "publish"
  /\ CanRun(p)
  /\ \/ /\ nextId <= MaxEvents
        /\ primary' = primary \cup {PrimaryCall(p, nextId)}
        /\ pubId' = [pubId EXCEPT ![p] = nextId]
        /\ nextId' = nextId + 1
        /\ pc' = [pc EXCEPT ![p] = "statusUpdate"]
        /\ UNCHANGED <<todo, err, failures>>
     \/ /\ Reject
        /\ primary' = primary \cup {PrimaryCall(p, 0)}
        /\ RunCalls(p, <<<<"release", 0>>>>, ErrRelay)
        /\ UNCHANGED <<pubId, nextId>>
  /\ UNCHANGED <<now, storageOk, locks, publishedPosts, log, qc,
                 ticks, cand, cur, rd, upd, liveAtTick,
                 callCount, ret, timer, count>>

\* await publishEvent(updatedScheduledEvent) resolves or rejects; then
\* STEP 5 markAsPublished and STEP 6 releaseLock
publishStatusUpdate(p) ==
  /\ pc[p] = "statusUpdate"
  /\ CanRun(p)
  /\ \/ /\ nextId <= MaxEvents
        /\ log' = Append(log, publishedRevision(nextId, cur[p], pubId[p]))
        /\ nextId' = nextId + 1
        /\ RunCalls(p, <<<<"mark", pubId[p]>>, <<"release", 0>>>>, NoError)
        /\ UNCHANGED failures
     \/ /\ Reject
        /\ RunCalls(p, <<<<"release", 0>>>>, ErrRelay)
        /\ UNCHANGED <<log, nextId>>
  /\ UNCHANGED <<now, storageOk, locks, publishedPosts, qc, primary,
                 ticks, cand, cur, rd, pubId, upd, liveAtTick,
                 callCount, ret, timer, count>>

\* releaseLock: getLocks and filter
releaseLock_get(p) ==
  /\ pc[p] = "storage_get"
  /\ Head(todo[p])[1] = "release"
  /\ rd' = [rd EXCEPT ![p] = releaseLock(getLocks, cur[p].id, User, SessionOf(p))]
  /\ pc' = [pc EXCEPT ![p] = "storage_set"]
  /\ UNCHANGED <<now, storageOk, locks, publishedPosts, log, nextId, qc,
                 primary, ticks, failures, cand, cur, todo, err, pubId,
                 upd, liveAtTick,
                 callCount, ret, timer, count>>

\* releaseLock: setLocks
releaseLock_set(p) ==
  /\ pc[p] = "storage_set"
  /\ Head(todo[p])[1] = "release"
  /\ setLocks(rd[p])
  /\ rd' = [rd EXCEPT ![p] = <<>>]
  /\ todo' = [todo EXCEPT ![p] = Tail(@)]
  /\ pc' = [pc EXCEPT ![p] = IF Tail(todo[p]) = <<>> THEN AfterCalls(p) ELSE "storage_get"]
  /\ UNCHANGED <<now, storageOk, publishedPosts, log, nextId, qc, primary,
                 ticks, failures, cand, cur, err, pubId, upd, liveAtTick,
                 callCount, ret, timer, count>>

\* markAsPublished: getPublishedPosts, filter, push, cap
markAsPublished_get(p) ==
  /\ pc[p] = "storage_get"
  /\ Head(todo[p])[1] = "mark"
  /\ rd' = [rd EXCEPT ![p] = markAsPublished(getPublishedPosts, cur[p].id,
                                             Head(todo[p])[2], User, now)]
  /\ pc' = [pc EXCEPT ![p] = "storage_set"]
  /\ UNCHANGED <<now, storageOk, locks, publishedPosts, log, nextId, qc,
                 primary, ticks, failures, cand, cur, todo, err, pubId,
                 upd, liveAtTick,
                 callCount, ret, timer, count>>

\* markAsPublished: setPublishedPosts
markAsPublished_set(p) ==
  /\ pc[p] = "storage_set"
  /\ Head(todo[p])[1] = "mark"
  /\ setPublishedPosts(rd[p])
  /\ rd' = [rd EXCEPT ![p] = <<>>]
  /\ todo' = [todo EXCEPT ![p] = Tail(@)]
  /\ pc' = [pc EXCEPT ![p] = IF Tail(todo[p]) = <<>> THEN AfterCalls(p) ELSE "storage_get"]
  /\ UNCHANGED <<now, storageOk, locks, log, nextId, qc, primary,
                 ticks, failures, cand, cur, err, pubId, upd, liveAtTick,
                 callCount, ret, timer, count>>

\* ------------------------------- checkAndPublishPosts: the catch block
\* await updatePostStatus({scheduledPost: post, newStatus: 'failed'})
\* (useUpdateScheduledPostStatus) resolves or rejects; either way the
\* 'Publishing failed' toast follows, so upd[p] # "none" also says that the
\* failure was reported to the user
updatePostStatus(p) ==
  /\ pc[p] = "updatePostStatus"
  /\ CanRun(p)
  /\ \/ /\ nextId <= MaxEvents
        /\ log' = Append(log, statusRevision(nextId, cur[p], "failed", 0))
        /\ nextId' = nextId + 1
        /\ upd' = [upd EXCEPT ![p] = "ok"]
        /\ UNCHANGED failures
     \/ /\ Reject
        /\ upd' = [upd EXCEPT ![p] = "error"]
        /\ UNCHANGED <<log, nextId>>
  /\ pc' = [pc EXCEPT ![p] = "loop"]
  /\ UNCHANGED <<now, storageOk, locks, publishedPosts, qc, primary,
                 ticks, cand, cur, rd, todo, err, pubId, liveAtTick,
                 callCount, ret, timer, count>>

\* EventDialogActions.handlePublish: the dialog calls publishPost with the
\* post it was opened with, which it keeps in component state while the
\* query data moves on; the button shows while that post reads scheduled
PublishNow(p) ==
  /\ p \in Dialogs
  /\ pc[p] = "idle"
  /\ CanRun(p)
  /\ LET shown == useScheduledPosts(log) IN
     \E i \in 1..Len(shown) :
        /\ shown[i].status = "scheduled"
        /\ cur' = [cur EXCEPT ![p] = shown[i]]
  /\ err' = [err EXCEPT ![p] = NoError]
  /\ pubId' = [pubId EXCEPT ![p] = 0]
  /\ pc' = [pc EXCEPT ![p] = "step1"]
  /\ UNCHANGED <<now, storageOk, locks, publishedPosts, log, nextId, qc,
                 primary, ticks, failures, cand, rd, todo, upd, liveAtTick,
                 callCount, ret, timer, count>>

\* the steps of one invocation of usePublishScheduledPost.mutationFn
publishPost(p) ==
  \/ step1(p)
  \/ acquireLock_get(p)
  \/ acquireLock_set(p)
  \/ verifyLock(p)
  \/ decrypt(p)
  \/ publishPrimary(p)
  \/ publishStatusUpdate(p)
  \/ releaseLock_get(p)
  \/ releaseLock_set(p)
  \/ markAsPublished_get(p)
  \/ markAsPublished_set(p)

\* the steps of one invocation of the scheduler loop
TickSteps(p) ==
  \/ Tick(p)
  \/ cleanup_setLocks(p)
  \/ cleanup_getPublished(p)
  \/ cleanup_setPublished(p)
  \/ selectCandidates(p)
  \/ loopNext(p)
  \/ step1(p)
  \/ acquireLock_get(p)
  \/ acquireLock_set(p)
  \/ verifyLock(p)
  \/ decrypt(p)
  \/ publishPrimary(p)
  \/ publishStatusUpdate(p)
  \/ releaseLock_get(p)
  \/ releaseLock_set(p)
  \/ markAsPublished_get(p)
  \/ markAsPublished_set(p)
  \/ updatePostStatus(p)

\* the steps of the environment and of the invocations that run
NextOf(running) ==
  \/ Advance
  \/ \E s \in Sessions : Refetch(s)
  \/ \E s \in Sessions : Cancel(s)
  \/ \E p \in running : TickSteps(p)

\* one scheduler loop in each of two tabs
Next == NextOf({"a", "b"})

Spec == Init /\ [][Next]_vars

\* two overlapping invocations of the scheduler loop in one tab
TabSpec == Init /\ [][NextOf({"a", "c"})]_vars

\* one tab whose invocations follow one another
SoloSpec == Init /\ [][NextOf({"a"})]_vars

\* the snapshots the candidate filter is applied to: one post of any owner,
\* status, scheduled instant and published-content reference
FilterPosts ==
  [id : {1}, d : {"d1"}, content : {"nip44"},
   scheduledAt : {InvalidDate} \cup 1..(DueAt + LOCK_TIMEOUT + MaxLate + 1),
   postKind : {1}, title : {"title"},
   status : {"scheduled", "published", "failed", "cancelled"},
   publishedEventId : {0, 1}, pubkey : {User, "bob"}]

\* a tab about to tick over one post, with or without a published-cache entry
FilterInit ==
  LET t == DueAt + LOCK_TIMEOUT + MaxLate IN
  \E post \in FilterPosts :
     \E stored \in {<<>>, <<PublishedPost(post.id, 1, t, User)>>} :
        Started(t, <<FirstEvent>>, <<post>>, stored)

\* one tick up to the selection of its candidates
FilterNext ==
  \/ Tick("a")
  \/ cleanup_setLocks("a")
  \/ cleanup_getPublished("a")
  \/ cleanup_setPublished("a")
  \/ selectCandidates("a")

FilterSpec == FilterInit /\ [][FilterNext]_vars

\* the characters of the tag values that are fetched
TagChars == {"0", "1", "2", "a", "-"}

Texts(n) == UNION {[1..k -> TagChars] : k \in 0..n}

\* the events a relay may hold besides the user's post: any slug, scheduled_at
\* and post_kind values, with or without a status tag
RawEvents ==
  [id : {2}, kind : {SCHEDULED_POST_KIND}, pubkey : {User},
   content : {"nip44"}, d : {"", "d2"},
   scheduled_at : Texts(MaxTagLen), post_kind : Texts(MaxTagLen),
   status : {"", "published"}, published_event_id : {0}, title : {"title"}]

\* the tabs have not fetched yet
RecordInit ==
  \E raw \in RawEvents : Started(DueAt, <<raw, FirstEvent>>, <<>>, <<>>)

\* the query of useScheduledPosts resolves
RecordNext == \E s \in Sessions : Refetch(s)

RecordSpec == RecordInit /\ [][RecordNext]_vars

\* the post is scheduled ahead of time and the user cancels, if at all,
\* before it is due
EarlySpec ==
  Created(DueAt - 1)
  /\ [][/\ Next
        /\ (Len(log') > Len(log) /\ log'[Len(log')].status = "cancelled")
           => now < DueAt]_vars

\* ------------------------------- the PublishingLockManager on its own
\* The managers of two tabs are called directly (as usePublishingLock()
\* hands them out), each call split at its storage accesses, while the
\* clock moves minute by minute.
PostIds == {1, 2}

HarnessPcs == {"idle", "call_acquireLock_set", "call_releaseLock_set",
               "call_ownsLock_release", "call_cleanup_setLocks",
               "call_cleanup_getPublished", "call_cleanup_setPublished",
               "call_markAsPublished_set"}

\* a tab starts a call while it is between calls
StartCall(p) ==
  /\ pc[p] = "idle"
  /\ callCount["a"] + callCount["b"] < MaxCalls
  /\ callCount' = [callCount EXCEPT ![p] = @ + 1]

Returned(call, postId, value) == [call |-> call, postId |-> postId, value |-> value]

LockAdvance ==
  /\ \A p \in Procs : pc[p] = "idle"
  /\ now < DueAt + MaxAge
  /\ now' = now + 1
  /\ UNCHANGED <<storageOk, locks, publishedPosts, log, nextId, qc,
                 primary, pc, ticks, failures, cand, cur, rd, todo, err,
                 pubId, upd, liveAtTick, callCount, ret, timer, count>>

\* acquireLock(postId, pubkey) up to its return false or its setLocks
call_acquireLock(p, postId) ==
  /\ StartCall(p)
  /\ IF existingLock(getLocks, postId, User, SessionOf(p), now)
     THEN /\ ret' = [ret EXCEPT ![p] = Returned("acquireLock", postId, "false")]
          /\ UNCHANGED <<pc, rd>>
     ELSE /\ rd' = [rd EXCEPT ![p] = acquireLock(getLocks, postId, User, SessionOf(p), now)]
          /\ pc' = [pc EXCEPT ![p] = "call_acquireLock_set"]
          /\ ret' = [ret EXCEPT ![p] = Returned("acquireLock", postId, "pending")]
  /\ UNCHANGED <<now, storageOk, locks, publishedPosts, log, nextId, qc,
                 primary, ticks, failures, cand, cur, todo, err, pubId,
                 upd, liveAtTick, timer, count>>

\* acquireLock: setLocks(filteredLocks); return true
call_acquireLock_set(p) ==
  /\ pc[p] = "call_acquireLock_set"
  /\ setLocks(rd[p])
  /\ rd' = [rd EXCEPT ![p] = <<>>]
  /\ ret' = [ret EXCEPT ![p].value = "true"]
  /\ pc' = [pc EXCEPT ![p] = "idle"]
  /\ UNCHANGED <<now, storageOk, publishedPosts, log, nextId, qc, primary,
                 ticks, failures, cand, cur, todo, err, pubId, upd,
                 liveAtTick, callCount, timer, count>>

\* releaseLock(postId, pubkey): getLocks and filter
call_releaseLock(p, postId) ==
  /\ StartCall(p)
  /\ rd' = [rd EXCEPT ![p] = releaseLock(getLocks, postId, User, SessionOf(p))]
  /\ pc' = [pc EXCEPT ![p] = "call_releaseLock_set"]
  /\ ret' = [ret EXCEPT ![p] = Returned("releaseLock", postId, "pending")]
  /\ UNCHANGED <<now, storageOk, locks, publishedPosts, log, nextId, qc,
                 primary, ticks, failures, cand, cur, todo, err, pubId,
                 upd, liveAtTick, timer, count>>

\* releaseLock: setLocks; ownsLock returns false after it
call_releaseLock_set(p) ==
  /\ pc[p] = "call_releaseLock_set"
  /\ setLocks(rd[p])
  /\ rd' = [rd EXCEPT ![p] = <<>>]
  /\ ret' = [ret EXCEPT ![p].value = IF ret[p].call = "ownsLock" THEN "false" ELSE "void"]
  /\ pc' = [pc EXCEPT ![p] = "idle"]
  /\ UNCHANGED <<now, storageOk, publishedPosts, log, nextId, qc, primary,
                 ticks, failures, cand, cur, todo, err, pubId, upd,
                 liveAtTick, callCount, timer, count>>

\* ownsLock(postId, pubkey) up to its return or its call of releaseLock
call_ownsLock(p, postId) ==
  /\ StartCall(p)
  /\ LET owns == ownsLock(getLocks, postId, User, SessionOf(p), now) IN
     /\ ret' = [ret EXCEPT ![p] = Returned("ownsLock", postId,
                                           IF owns = "owned" THEN "true"
                                           ELSE IF owns = "none" THEN "false"
                                           ELSE "pending")]
     /\ pc' = [pc EXCEPT ![p] = IF owns = "expired" THEN "call_ownsLock_release" ELSE "idle"]
  /\ UNCHANGED <<now, storageOk, locks, publishedPosts, log, nextId, qc,
                 primary, ticks, failures, cand, cur, rd, todo, err, pubId,
                 upd, liveAtTick, timer, count>>

\* ownsLock: this.releaseLock(postId, pubkey) on an expired entry
call_ownsLock_release(p) ==
  /\ pc[p] = "call_ownsLock_release"
  /\ rd' = [rd EXCEPT ![p] = releaseLock(getLocks, ret[p].postId, User, SessionOf(p))]
  /\ pc' = [pc EXCEPT ![p] = "call_releaseLock_set"]
  /\ UNCHANGED <<now, storageOk, locks, publishedPosts, log, nextId, qc,
                 primary, ticks, failures, cand, cur, todo, err, pubId,
                 upd, liveAtTick, callCount, ret, timer, count>>

\* cleanup(): getLocks and filter
call_cleanup(p) ==
  /\ StartCall(p)
  /\ rd' = [rd EXCEPT ![p] = cleanupLocks(getLocks, now)]
  /\ pc' = [pc EXCEPT ![p] = "call_cleanup_setLocks"]
  /\ ret' = [ret EXCEPT ![p] = Returned("cleanup", 0, "pending")]
  /\ UNCHANGED <<now, storageOk, locks, publishedPosts, log, nextId, qc,
                 primary, ticks, failures, cand, cur, todo, err, pubId,
                 upd, liveAtTick, timer, count>>

call_cleanup_setLocks(p) ==
  /\ pc[p] = "call_cleanup_setLocks"
  /\ setLocks(rd[p])
  /\ rd' = [rd EXCEPT ![p] = <<>>]
  /\ pc' = [pc EXCEPT ![p] = "call_cleanup_getPublished"]
  /\ UNCHANGED <<now, storageOk, publishedPosts, log, nextId, qc, primary,
                 ticks, failures, cand, cur, todo, err, pubId, upd,
                 liveAtTick, callCount, ret, timer, count>>

call_cleanup_getPublished(p) ==
  /\ pc[p] = "call_cleanup_getPublished"
  /\ rd' = [rd EXCEPT ![p] = cleanupPublished(getPublishedPosts, now)]
  /\ pc' = [pc EXCEPT ![p] = "call_cleanup_setPublished"]
  /\ UNCHANGED <<now, storageOk, locks, publishedPosts, log, nextId, qc,
                 primary, ticks, failures, cand, cur, todo, err, pubId,
                 upd, liveAtTick, callCount, ret, timer, count>>

call_cleanup_setPublished(p) ==
  /\ pc[p] = "call_cleanup_setPublished"
  /\ setPublishedPosts(rd[p])
  /\ rd' = [rd EXCEPT ![p] = <<>>]
  /\ ret' = [ret EXCEPT ![p].value = "void"]
  /\ pc' = [pc EXCEPT ![p] = "idle"]
  /\ UNCHANGED <<now, storageOk, locks, log, nextId, qc, primary,
                 ticks, failures, cand, cur, todo, err, pubId, upd,
                 liveAtTick, callCount, timer, count>>

\* markAsPublished(postId, publishedEventId, pubkey): getPublishedPosts,
\* filter, push and cap
call_markAsPublished(p, postId) ==
  /\ StartCall(p)
  /\ rd' = [rd EXCEPT ![p] = markAsPublished(getPublishedPosts, postId, 1, User, now)]
  /\ pc' = [pc EXCEPT ![p] = "call_markAsPublished_set"]
  /\ ret' = [ret EXCEPT ![p] = Returned("markAsPublished", postId, "pending")]
  /\ UNCHANGED <<now, storageOk, locks, publishedPosts, log, nextId, qc,
                 primary, ticks, failures, cand, cur, todo, err, pubId,
                 upd, liveAtTick, timer, count>>

\* markAsPublished: setPublishedPosts(filtered)
call_markAsPublished_set(p) ==
  /\ pc[p] = "call_markAsPublished_set"
  /\ setPublishedPosts(rd[p])
  /\ rd' = [rd EXCEPT ![p] = <<>>]
  /\ ret' = [ret EXCEPT ![p].value = "void"]
  /\ pc' = [pc EXCEPT ![p] = "idle"]
  /\ UNCHANGED <<now, storageOk, locks, log, nextId, qc, primary,
                 ticks, failures, cand, cur, todo, err, pubId, upd,
                 liveAtTick, callCount, timer, count>>

LockNext ==
  \/ LockAdvance
  \/ \E p \in {"a", "b"} : \E postId \in PostIds : call_acquireLock(p, postId)
  \/ \E p \in {"a", "b"} : call_acquireLock_set(p)
  \/ \E p \in {"a", "b"} : \E postId \in PostIds : call_releaseLock(p, postId)
  \/ \E p \in {"a", "b"} : call_releaseLock_set(p)
  \/ \E p \in {"a", "b"} : \E postId \in PostIds : call_ownsLock(p, postId)
  \/ \E p \in {"a", "b"} : call_ownsLock_release(p)
  \/ \E p \in {"a", "b"} : call_cleanup(p)
  \/ \E p \in {"a", "b"} : call_cleanup_setLocks(p)
  \/ \E p \in {"a", "b"} : call_cleanup_getPublished(p)
  \/ \E p \in {"a", "b"} : call_cleanup_setPublished(p)

LockSpec == Init /\ [][LockNext]_vars

\* a published cache of n entries of other posts, written at instant t except
\* for the entry at position old, written one minute before
Fill(n, old, t) ==
  [k \in 1..n |-> PublishedPost(100 + k, 1, IF k = old THEN t - 1 ELSE t, User)]

\* the caches a tab may find: empty, one short of the cap or at the cap, with
\* entries as recent as now or older, the oldest one first, last or nowhere
CacheFills(t) ==
  {<<>>}
  \cup {Fill(n, old, u) : n \in {MAX_PUBLISHED_POSTS - 1, MAX_PUBLISHED_POSTS},
                         old \in {0, 1, MAX_PUBLISHED_POSTS - 1},
                         u \in {t - 1, t}}

CacheInit ==
  \E stored \in CacheFills(DueAt + 1) :
     Started(DueAt + 1, <<FirstEvent>>, useScheduledPosts(<<FirstEvent>>), stored)

\* one tab marks posts as published, one call after the other
CacheNext ==
  \/ \E postId \in PostIds : call_markAsPublished("a", postId)
  \/ call_markAsPublished_set("a")

CacheSpec == CacheInit /\ [][CacheNext]_vars

\* lock lists with at most one entry per post, of either session, aged around
\* the lock timeout at instant t
HeldLists(t) ==
  LET ages == (LOCK_TIMEOUT - 1)..(LOCK_TIMEOUT + 1)
      of(postId) == {<<>>} \cup {<<Lock(postId, t - age, s, User)>> :
                                    age \in ages, s \in Sessions}
  IN {l1 \o l2 : l1 \in of(1), l2 \in of(2)}

\* published caches with at most one entry per post, aged around 24 hours at
\* instant t
AgedCaches(t) ==
  LET ages == (PUBLISHED_RETENTION - 1)..(PUBLISHED_RETENTION + 1)
      of(postId) == {<<>>} \cup {<<PublishedPost(postId, 1, t - age, User)>> :
                                    age \in ages}
  IN {c1 \o c2 : c1 \in of(1), c2 \in of(2)}

\* a tab that finds old and recent entries in localStorage
CleanupInit ==
  LET t == PUBLISHED_RETENTION + 2 IN
  \E held \in HeldLists(t) : \E stored \in AgedCaches(t) :
     Stored(t, <<FirstEvent>>, useScheduledPosts(<<FirstEvent>>), held, stored)

\* the tab calls cleanup(), one call after the other
CleanupNext ==
  \/ call_cleanup("a")
  \/ call_cleanup_setLocks("a")
  \/ call_cleanup_getPublished("a")
  \/ call_cleanup_setPublished("a")

CleanupSpec == CleanupInit /\ [][CleanupNext]_vars

\* a second post of the user, due at the same instant
SecondEvent == Event(2, User, "nip44", "d2", DueAt, 1, "scheduled", 0, "title")

\* one tab has fetched two posts that have just become due
BatchInit ==
  Started(DueAt, <<FirstEvent, SecondEvent>>,
          useScheduledPosts(<<FirstEvent, SecondEvent>>), <<>>)

\* the tab ticks while its query may resolve anew
BatchNext ==
  \/ Refetch("sA")
  \/ TickSteps("a")

BatchSpec == BatchInit /\ [][BatchNext]_vars

\* two tabs have fetched two due posts; tab A refetches and its user may
\* cancel a post while both tabs tick
RecheckNext ==
  \/ Refetch("sA")
  \/ Cancel("sA")
  \/ TickSteps("a")
  \/ TickSteps("b")

RecheckSpec == BatchInit /\ [][RecheckNext]_vars

\* two tabs have fetched two due posts and tick while time passes and the
\* awaited calls take their time
SlowNext ==
  \/ Advance
  \/ TickSteps("a")
  \/ TickSteps("b")

SlowSpec == BatchInit /\ [][SlowNext]_vars

\* two tabs tick on one due post; tab B and the clock keep going, while tab A
\* may stop for good at any point (it is closed or it crashes)
TakeoverSpec == Init /\ [][SlowNext]_vars

TakeoverLive ==
  TakeoverSpec /\ WF_vars(Advance) /\ WF_vars(TickSteps("b"))

\* one tab whose user works with the list and a dialog: the query resolves
\* anew, the user cancels a post, and the dialog publishes the post it shows
DialogNext ==
  \/ Refetch("sA")
  \/ Cancel("sA")
  \/ PublishNow("m")
  \/ publishPost("m")

DialogSpec == Init /\ [][DialogNext]_vars

\* the cleanup of the effect that started the loop of p runs at a point where
\* p is suspended: clearInterval(intervalRef.current), and when the component
\* unmounts also lockManager.cleanup(); the timer exists once the effect has
\* run, which starts with a tick
Teardown(p, unmount) ==
  /\ timer[p] = "set"
  /\ ticks > 0
  /\ pc[p] \in AwaitPcs /\ CanRun(p)
  /\ timer' = [timer EXCEPT ![p] = "cleared"]
  /\ IF unmount
     THEN /\ setLocks(cleanupLocks(getLocks, now))
          /\ setPublishedPosts(cleanupPublished(getPublishedPosts, now))
     ELSE UNCHANGED <<locks, publishedPosts>>
  /\ UNCHANGED <<now, storageOk, log, nextId, qc, primary, pc, ticks,
                 failures, cand, cur, rd, todo, err, pubId, upd,
                 liveAtTick, callCount, ret, count>>

\* one tab whose scheduler loop is torn down at some point
TeardownNext ==
  \/ Advance
  \/ Refetch("sA")
  \/ TickSteps("a")
  \/ \E unmount \in BOOLEAN : Teardown("a", unmount)

TeardownSpec == Init /\ [][TeardownNext]_vars

\* every awaited call settles and the continuation of the invocation runs
TeardownLive == TeardownSpec /\ WF_vars(TickSteps("a"))

\* the user's post as a relay may hold it: tag texts that read as the due
\* instant and as kind 1, with or without a title, a status tag and a
\* published_event_id tag
RevisableEvents ==
  [id : {1}, kind : {SCHEDULED_POST_KIND}, pubkey : {User},
   content : {"nip44"}, d : {"d1"},
   scheduled_at : {t \in Texts(MaxTagLen) : parseInt(t) = DueAt},
   post_kind : {t \in Texts(MaxTagLen) : parseInt(t) = 1},
   status : {"", "failed"}, published_event_id : {0, 1},
   title : {"", "title"}]

\* the tab has fetched the post
RevisionInit ==
  \E raw \in RevisableEvents :
     /\ Started(DueAt, <<raw>>, useScheduledPosts(<<raw>>), <<>>)
     /\ storageOk

\* useUpdateScheduledPostStatus called with {scheduledPost, newStatus} for a
\* post the tab knows
call_updatePostStatus(s) ==
  /\ \A p \in Procs : SessionOf(p) = s => pc[p] \in AwaitPcs
  /\ nextId <= MaxEvents
  /\ \E i \in 1..Len(qc[s]) : \E newStatus \in {"failed", "cancelled"} :
        log' = Append(log, statusRevision(nextId, qc[s][i], newStatus, 0))
  /\ nextId' = nextId + 1
  /\ UNCHANGED <<now, storageOk, locks, publishedPosts, qc, primary,
                 pc, ticks, failures, cand, cur, rd, todo, err, pubId,
                 upd, liveAtTick, callCount, ret, timer, count>>

\* the three ways in which the subsystem revises a post
RevisionNext ==
  \/ Refetch("sA")
  \/ Cancel("sA")
  \/ call_updatePostStatus("sA")
  \/ TickSteps("a")

RevisionSpec == RevisionInit /\ [][RevisionNext]_vars

\* ------------------------------------------------ the count utilities
\* getFollowerCount and getNoteLikeCount: one call, from its arguments to the
\* value or the error it settles with. An identifier is its sequence of
\* characters.
HexChars == {"0", "1", "2", "3", "4", "5", "6", "7", "8", "9",
             "a", "b", "c", "d", "e", "f", "A", "B", "C", "D", "E", "F"}

\* a test that asks for the length only
isHex64_AnyChars(str) == Len(str) = 64

\* /^[0-9a-f]{64}$/i.test(str)
isHex64(str) == Len(str) = 64 /\ \A i \in 1..Len(str) : str[i] \in HexChars

Repeat(c, n) == [i \in 1..n |-> c]

\* identifiers a caller may pass: well formed in lower and in upper case, too
\* short, too long, with a character that is no hex digit, and empty
Identifiers ==
  {Repeat("a", 64), Repeat("A", 64), Repeat("a", 63), Repeat("a", 65),
   Repeat("g", 64), <<>>}

\* the tag lists of the events a relay may return
TagLists ==
  LET e(id) == <<"e", id>>
      a == Repeat("a", 64)
      b == Repeat("b", 64)
  IN {<<>>, <<e(a)>>, <<e(b)>>, <<e(Repeat("A", 64))>>, <<<<"p", a>>>>,
      <<<<"e">>>>, <<e(a), e(b)>>, <<e(b), e(a)>>}

Replies ==
  UNION {[1..n -> [pubkey : {"p1", "p2"}, tags : TagLists]] : n \in 0..MaxLikes}

\* what nostr.query may reject with: an Error of some name, or a value that
\* is no Error and has no name
Failures ==
  [isError : {TRUE}, name : {"AbortError", "TimeoutError", "Error"},
   message : {<<"Aborted">>}]
  \cup {[isError |-> FALSE, name |-> "", message |-> <<"closed">>]}

Timeouts == {DEFAULT_TIMEOUT, 1000}

CountFns == {"getFollowerCount", "getNoteLikeCount"}

InvalidFormat(fn) ==
  [isError |-> TRUE, name |-> "Error",
   message |-> IF fn = "getFollowerCount"
               THEN <<"Invalid pubkey format. Expected 64 character hex string.">>
               ELSE <<"Invalid note ID format. Expected 64 character hex string.">>]

\* `... query timed out after ${timeout}ms`
TimedOut(fn, timeout) ==
  [isError |-> TRUE, name |-> "Error",
   message |-> <<IF fn = "getFollowerCount"
                 THEN "Follower count query timed out after "
                 ELSE "Note like count query timed out after ",
                 toString(timeout), "ms">>]

\* like.tags.some(tag => tag[0] === 'e' && tag[1] === noteId)
referencesNote(like, noteId) ==
  \E k \in 1..Len(like.tags) :
     LET tag == like.tags[k]
     IN /\ Len(tag) >= 1 /\ tag[1] = "e"
        /\ Len(tag) >= 2 /\ tag[2] = noteId

\* a count of the like events instead of their authors
uniqueLikers_PerEvent(likes, noteId) ==
  Cardinality({k \in 1..Len(likes) : referencesNote(likes[k], noteId)})

\* uniqueLikers.size
uniqueLikers(likes, noteId) ==
  Cardinality({likes[k].pubkey : k \in {j \in 1..Len(likes) :
                                          referencesNote(likes[j], noteId)}})

\* uniqueFollowers.size
uniqueFollowers(followEvents) ==
  Cardinality({followEvents[k].pubkey : k \in 1..Len(followEvents)})

\* the catch block of both utilities
Rethrown(fn, error, timeout) ==
  IF error.isError /\ error.name = "AbortError" THEN TimedOut(fn, timeout)
  ELSE error

\* the call up to its format error or its nostr.query
count_call(fn, id, timeout) ==
  /\ count.pc = "idle"
  /\ count' = IF ~isHex64(id)
              THEN [count EXCEPT !.pc = "done", !.fn = fn, !.id = id,
                                 !.timeout = timeout,
                                 !.outcome = <<"error", InvalidFormat(fn)>>]
              ELSE [count EXCEPT !.pc = "query", !.fn = fn, !.id = id,
                                 !.timeout = timeout, !.queries = 1]
  /\ UNCHANGED <<now, storageOk, locks, publishedPosts, log, nextId, qc,
                 primary, pc, ticks, failures, cand, cur, rd, todo, err,
                 pubId, upd, liveAtTick, callCount, ret, timer>>

\* await nostr.query(...) resolves with events
count_resolve(events) ==
  /\ count.pc = "query"
  /\ count' = [count EXCEPT !.pc = "done", !.reply = events,
                            !.outcome =
                               <<"value",
                                 IF count.fn = "getFollowerCount"
                                 THEN uniqueFollowers(events)
                                 ELSE uniqueLikers(events, count.id)>>]
  /\ UNCHANGED <<now, storageOk, locks, publishedPosts, log, nextId, qc,
                 primary, pc, ticks, failures, cand, cur, rd, todo, err,
                 pubId, upd, liveAtTick, callCount, ret, timer>>

\* await nostr.query(...) rejects
count_reject(error) ==
  /\ count.pc = "query"
  /\ count' = [count EXCEPT !.pc = "done", !.reply = <<error>>,
                            !.outcome =
                               <<"error", Rethrown(count.fn, error, count.timeout)>>]
  /\ UNCHANGED <<now, storageOk, locks, publishedPosts, log, nextId, qc,
                 primary, pc, ticks, failures, cand, cur, rd, todo, err,
                 pubId, upd, liveAtTick, callCount, ret, timer>>

CountNext ==
  \/ \E fn \in CountFns : \E id \in Identifiers : \E timeout \in Timeouts :
        count_call(fn, id, timeout)
  \/ \E events \in Replies : count_resolve(events)
  \/ \E error \in Failures : count_reject(error)

CountSpec == Init /\ [][CountNext]_vars

\* ------------------------------------------------------------- claims
\* positions inside usePublishScheduledPost.mutationFn
WorkflowPcs == {"step1", "acquireLock_get", "acquireLock_set", "ownsLock",
                "decrypt", "publish", "statusUpdate", "storage_get", "storage_set"}

\* status of the newest revision of slug d in the log l ("" when none)
StatusOf(l, d) ==
  IF \E i \in 1..Len(l) : l[i].d = d
  THEN parseScheduledPost(l[CHOOSE i \in 1..Len(l) :
                               /\ l[i].d = d
                               /\ \A j \in (i + 1)..Len(l) : l[j].d # d]).status
  ELSE ""

\* C1: when two sessions run the publish workflow for the same post at the
\* same instant, at most one of the two invocations has made a successful
\* primary-content publish call (the other ends with LockHeld or
\* AlreadyPublished).
C1_OnePrimaryPublishInRace ==
  \A p \in Procs : \A q \in Procs \ {p} :
     (/\ SessionOf(p) # SessionOf(q)
      /\ now = DueAt
      /\ pc[p] \in WorkflowPcs
      /\ pc[q] \in WorkflowPcs
      /\ cur[p].id = cur[q].id)
     => ~(pubId[p] # 0 /\ pubId[q] # 0)

\* C2: with the storage working, of the concurrent acquireLock calls of
\* different sessions for one (post id, owner), started with no lock stored
\* for the pair, at most one
\* gets past the existing-lock check to its setLocks and return true.
C2_OneConcurrentAcquireWins ==
  \A p \in Procs : \A q \in Procs \ {p} :
     (/\ storageOk
      /\ SessionOf(p) # SessionOf(q)
      /\ ret[p].postId = ret[q].postId
      /\ \A k \in 1..Len(locks) : locks[k].postId # ret[p].postId)
     => ~(pc[p] = "call_acquireLock_set" /\ pc[q] = "call_acquireLock_set")

\* C3: once a primary-content publish call for a post has returned a content
\* identifier, no tick started afterwards calls the publish primitive for
\* that post's primary content.
C3_NoRepublishByLaterTick ==
  \A p \in Procs : pc[p] = "publish" => cur[p].d \notin liveAtTick[p]

\* C4: the terminal status the ticks bring a post to (published or failed)
\* is final: no step of a tick changes the status of a post whose newest
\* revision has it.
C4_TerminalStatusIsFinal ==
  [][\A d \in Slugs :
        (StatusOf(log, d) \in {"published", "failed"} /\ pc' # pc)
        => StatusOf(log', d) = StatusOf(log, d)]_vars

\* the stored locks of other sessions for the pair (postId, User), as the
\* session of p sees them
ForeignLocks(p, postId) ==
  {k \in 1..Len(locks) : /\ locks[k].postId = postId
                         /\ locks[k].pubkey = User
                         /\ locks[k].sessionId # SessionOf(p)}

\* C5: while another session's lock for the pair, taken at t0 and not
\* released, is stored, acquireLock returns false when now - t0 is at most
\* the timeout for one such lock, and goes on to return true when now - t0
\* exceeds the timeout for all of them.
C5_LockExpiresAfterTimeout ==
  [][\A p \in Procs :
        (callCount'[p] # callCount[p] /\ ret'[p].call = "acquireLock")
        => LET held == ForeignLocks(p, ret'[p].postId) IN
           /\ (\E k \in held : now - locks[k].timestamp <= LOCK_TIMEOUT)
              => (ret'[p].value = "false" /\ pc'[p] = "idle")
           /\ (held # {} /\ \A k \in held : now - locks[k].timestamp > LOCK_TIMEOUT)
              => pc'[p] = "call_acquireLock_set"]_vars

\* a session is about to return true from acquireLock over the lock another
\* session took more than the timeout ago and never released
C5_Witness ==
  \E p \in Procs :
     /\ pc[p] = "call_acquireLock_set"
     /\ \E k \in ForeignLocks(p, ret[p].postId) :
           now - locks[k].timestamp = LOCK_TIMEOUT + 1

\* C6: once the newest revision of a post is published or cancelled, neither
\* the workflow's status update nor the status updater publishes a later
\* revision with a different status.
C6_TerminalNeverRevised ==
  [][\A p \in Procs : \A d \in Slugs :
        (/\ pc[p] \in {"statusUpdate", "updatePostStatus"}
         /\ pc'[p] # pc[p]
         /\ StatusOf(log, d) \in {"published", "cancelled"})
        => StatusOf(log', d) = StatusOf(log, d)]_vars

\* C7: an invocation that ended with LockHeld or LockLost never makes the
\* scheduler loop call the status updater or report a failure.
C7_TransientNotMarkedFailed ==
  \A p \in Procs :
     err[p] \in {ErrBeingPublished, ErrLostLock}
     => (pc[p] # "updatePostStatus" /\ upd[p] = "none")

\* C8: an invocation that ended with AlreadyPublished (cache hit at step 1,
\* published status or published-content reference at step 3) never makes
\* the scheduler loop call the status updater or report a failure.
C8_AlreadyPublishedNotMarkedFailed ==
  \A p \in Procs :
     err[p] \in {ErrAlreadyPublishedAs, ErrStatusPublished, ErrHasEventId}
     => (pc[p] # "updatePostStatus" /\ upd[p] = "none")

\* an invocation ended with AlreadyPublished and the loop went on
C8_Witness ==
  \E p \in Procs : pc[p] = "loop" /\ err[p] = ErrAlreadyPublishedAs /\ upd[p] = "none"

\* C9: when the primary publish succeeded and the status-update publish
\* failed, no revision with status failed is published for the post.
C9_StatusUpdateFailureOnlyLogged ==
  \A p \in Procs : (pubId[p] # 0 /\ err[p] = ErrRelay) => upd[p] # "ok"

\* C10: when every storage access fails, an invocation does not fail on a
\* lock or cache step.
C10_StorageFailureDoesNotBlock ==
  \A p \in Procs :
     ~storageOk => err[p] \notin {ErrAlreadyPublishedAs, ErrBeingPublished, ErrLostLock}

\* the most recent record among posts for slug d (NoPost when there is none);
\* event ids grow with the time of publication
KnownRecord(posts, d) ==
  IF \E i \in 1..Len(posts) : posts[i].d = d
  THEN posts[CHOOSE i \in 1..Len(posts) :
               /\ posts[i].d = d
               /\ \A j \in 1..Len(posts) : posts[j].d = d => posts[j].id <= posts[i].id]
  ELSE NoPost

\* C11: a workflow never goes from the freshness re-check on to call decrypt
\* while the most current record its tab knows for the post is in a terminal
\* state or carries a published-content reference.
C11_FreshnessRecheckStopsSettled ==
  [][\A p \in Procs :
        (pc[p] = "ownsLock" /\ pc'[p] = "decrypt")
        => LET known == KnownRecord(qc[SessionOf(p)], cur[p].d) IN
           /\ known.status \notin {"published", "cancelled", "failed"}
           /\ known.publishedEventId = 0]_vars

\* the lock entries the session of p has stored for the post it works on
OwnLocks(p, stored) ==
  {k \in 1..Len(stored) : /\ stored[k].postId = cur[p].id
                          /\ stored[k].pubkey = User
                          /\ stored[k].sessionId = SessionOf(p)}

\* C12: when a workflow that acquired the lock ends (its last lock-manager
\* call returns and the scheduler loop takes over), the storage holds no lock
\* entry of its session for the post; a workflow that leaves at step 1 or is
\* refused the lock at step 2 leaves the stored locks as they were.
C12_LockReleasedAtExit ==
  [][\A p \in Procs :
        /\ (pc[p] = "storage_set" /\ pc'[p] \in {"loop", "updatePostStatus"})
           => OwnLocks(p, locks') = {}
        /\ (pc[p] = "step1" /\ pc'[p] \notin {"step1", "acquireLock_get"})
           => locks' = locks
        /\ (pc[p] = "acquireLock_get"
            /\ pc'[p] \notin {"acquireLock_get", "acquireLock_set"})
           => locks' = locks]_vars

\* a workflow that held the lock while it published has ended, and the
\* working storage holds the cache entry it recorded and no lock of its
\* session
C12_Witness ==
  \E p \in Procs :
     /\ storageOk
     /\ pc[p] = "loop"
     /\ err[p] = NoError
     /\ pubId[p] # 0
     /\ isAlreadyPublished(publishedPosts, cur[p].id, User) = pubId[p]
     /\ OwnLocks(p, locks) = {}

\* C13: in one tab, no two workflows started by the scheduler loop are in
\* flight at the same time.
C13_OneWorkflowPerContext ==
  \A p \in Procs : \A q \in Procs \ {p} :
     SessionOf(p) = SessionOf(q)
     => ~(pc[p] \in WorkflowPcs /\ pc[q] \in WorkflowPcs)

\* the primary-content publish calls that returned an identifier
Published == {c \in primary : c.id # 0}

\* no capability call was rejected and the user cancelled nothing
Undisturbed ==
  /\ failures = 0
  /\ \A i \in 1..Len(log) : log[i].status # "cancelled"

\* C14: in one tab whose capabilities all succeed, at most one primary-content
\* publish call is ever made for the due post, and once the tick that made it
\* is over the newest revision of the post has status published and the
\* identifier that call returned, and the published cache maps the post to
\* that identifier; this stays so through the ticks that follow.
C14_OneTickPublishesOnce ==
  Undisturbed =>
     /\ Cardinality(primary) <= 1
     /\ \A c \in primary :
           (\A p \in Procs : pc[p] = "idle")
           => /\ c.id # 0
              /\ StatusOf(log, c.d) = "published"
              /\ KnownRecord(MapParse(log), c.d).publishedEventId = c.id
              /\ isAlreadyPublished(publishedPosts, c.postId, User) = c.id

\* the second tick after the one that published is over, and there is still
\* one primary-content publish call
C14_Witness ==
  /\ Undisturbed
  /\ ticks = 2
  /\ \A p \in Procs : pc[p] = "idle"
  /\ Cardinality(Published) = 1
  /\ \A c \in Published : StatusOf(log, c.d) = "published"

\* C15: once a revision with status cancelled has been published before the
\* due time of the post, no tick of any tab has the post among its candidates
\* or runs the publish workflow for it.
C15_CancelledNeverSelected ==
  (\E i \in 1..Len(log) : log[i].status = "cancelled")
  => \A p \in Procs : cand[p] = <<>> /\ pc[p] \notin WorkflowPcs

\* C16: the candidates a tick selects are exactly the posts of its snapshot
\* owned by the current identity, with status scheduled, a valid scheduled
\* instant between now - 5 minutes and now (both included), no
\* published-content reference and no published-cache entry.
C16_CandidatesAreTheEligible ==
  [][\A p \in Procs :
        (pc[p] = "filter" /\ pc'[p] # "filter")
        => LET cached == getPublishedPosts
               Eligible(post) ==
                 /\ post.pubkey = User
                 /\ post.status = "scheduled"
                 /\ post.scheduledAt # InvalidDate
                 /\ now - GRACE_PERIOD <= post.scheduledAt
                 /\ post.scheduledAt <= now
                 /\ post.publishedEventId = 0
                 /\ \A k \in 1..Len(cached) :
                       ~(cached[k].postId = post.id /\ cached[k].pubkey = User)
           IN cand'[p] = SelectSeq(qc[SessionOf(p)], Eligible)]_vars

\* a post scheduled exactly five minutes ago has been selected
C16_Witness ==
  \E p \in Procs :
     /\ pc[p] = "loop"
     /\ cand[p] # <<>>
     /\ cand[p][1].scheduledAt = now - GRACE_PERIOD

\* C17: the posts a query of the record store returns are exactly the fetched
\* events that have a d tag and scheduled_at and post_kind tags that are
\* integers greater than zero, each with an absent status read as scheduled,
\* in ascending order of scheduled instant.
C17_StoreReturnsTheValidSorted ==
  [][\A s \in Sessions :
        qc'[s] # qc[s]
        => \E events \in QueryResults :
              LET posts == qc'[s]
                  IsPositiveInteger(str) ==
                    /\ str # <<>>
                    /\ \A i \in 1..Len(str) : IsDigit(str[i])
                    /\ ParseDigits(str, 0) > 0
                  Accepted ==
                    {j \in 1..Len(events) :
                       /\ events[j].d # ""
                       /\ IsPositiveInteger(events[j].scheduled_at)
                       /\ IsPositiveInteger(events[j].post_kind)}
              IN
              /\ {posts[i].id : i \in 1..Len(posts)} = {events[j].id : j \in Accepted}
              /\ Len(posts) = Cardinality(Accepted)
              /\ \A i \in 1..Len(posts) : \E j \in Accepted :
                    /\ events[j].id = posts[i].id
                    /\ posts[i].status = IF events[j].status = "" THEN "scheduled"
                                         ELSE events[j].status
              /\ \A i \in 1..Len(posts) : \A k \in i..Len(posts) :
                    posts[i].scheduledAt <= posts[k].scheduledAt]_vars

\* C18: the posts a tick selects its candidates from hold at most one entity
\* per (owner, slug), and a primary-content publish call is made only for the
\* newest revision of its (owner, slug) in the log.
C18_ReadersUseNewestRevision ==
  [][/\ \A s \in Sessions : \A i \in 1..Len(qc'[s]) : \A j \in 1..Len(qc'[s]) :
           (qc'[s][i].pubkey = qc'[s][j].pubkey /\ qc'[s][i].d = qc'[s][j].d)
           => i = j
     /\ \A c \in primary' \ primary :
           c.postId = KnownRecord(MapParse(log), c.d).id]_vars

\* C19: a markAsPublished call leaves at most 1000 entries in the published
\* cache, all of them from the list it built; when that list was longer than
\* 1000 it leaves exactly 1000, and none of those it dropped has a more recent
\* timestamp than one it kept.
C19_CacheKeepsTheMostRecent ==
  [][\A p \in Procs :
        (pc[p] = "call_markAsPublished_set" /\ pc'[p] = "idle" /\ storageOk)
        => LET entry == PublishedPost(ret[p].postId, 1, now, User)
               others == {k \in 1..Len(publishedPosts) :
                            ~(/\ publishedPosts[k].postId = entry.postId
                              /\ publishedPosts[k].pubkey = User)}
               pushed == {publishedPosts[k] : k \in others} \cup {entry}
               kept == {publishedPosts'[k] : k \in 1..Len(publishedPosts')}
               keptIds == {publishedPosts'[k].postId : k \in 1..Len(publishedPosts')}
               stamps == {publishedPosts'[k].timestamp : k \in 1..Len(publishedPosts')}
               oldest == CHOOSE t \in stamps : \A u \in stamps : t <= u
           IN /\ Len(publishedPosts') <= MAX_PUBLISHED_POSTS
              /\ Cardinality(keptIds) = Len(publishedPosts')
              /\ kept \subseteq pushed
              /\ IF Cardinality(others) < MAX_PUBLISHED_POSTS
                 THEN Len(publishedPosts') = Cardinality(others) + 1
                 ELSE /\ Len(publishedPosts') = MAX_PUBLISHED_POSTS
                      /\ entry.postId \notin keptIds => entry.timestamp <= oldest
                      /\ \A k \in others :
                            publishedPosts[k].postId \notin keptIds
                            => publishedPosts[k].timestamp <= oldest]_vars

\* the cache is full and holds both posts that were marked: an older entry
\* was evicted for one of them
C19_Witness ==
  /\ Len(publishedPosts) = MAX_PUBLISHED_POSTS
  /\ \A postId \in PostIds : isAlreadyPublished(publishedPosts, postId, User) # 0
  /\ pc["a"] = "idle"

\* the stored entries of the session of p for a post
HeldBy(p, postId, stored) ==
  {k \in 1..Len(stored) : /\ stored[k].postId = postId
                          /\ stored[k].pubkey = User
                          /\ stored[k].sessionId = SessionOf(p)}

\* C20: an acquireLock call of a session that finds its own entry for the post
\* in the store, expired or not, does not return false; when it has written
\* and returned true the store holds one entry of the session for the post,
\* taken at the current time; a call that returns false leaves the stored
\* locks as they were.
C20_ReacquireBySameSession ==
  [][\A p \in Procs :
        /\ (/\ callCount'[p] = callCount[p] + 1
            /\ ret'[p].call = "acquireLock"
            /\ HeldBy(p, ret'[p].postId, getLocks) # {})
           => (ret'[p].value = "pending" /\ pc'[p] = "call_acquireLock_set")
        /\ (pc[p] = "call_acquireLock_set" /\ pc'[p] = "idle" /\ storageOk)
           => /\ ret'[p].value = "true"
              /\ Cardinality(HeldBy(p, ret[p].postId, locks')) = 1
              /\ \A k \in HeldBy(p, ret[p].postId, locks') : locks'[k].timestamp = now
        /\ (/\ callCount'[p] = callCount[p] + 1
            /\ ret'[p].call = "acquireLock"
            /\ ret'[p].value = "false")
           => locks' = locks]_vars

\* a session is re-acquiring a post whose entry of its own has expired
C20_Witness ==
  \E p \in Procs :
     /\ pc[p] = "call_acquireLock_set"
     /\ \E k \in HeldBy(p, ret[p].postId, locks) : isExpired(locks[k], now)

\* C21: the list a releaseLock call writes is the list it read without the
\* entry of the calling session for the post: every other entry is kept, in the
\* same number, and when the list read has no such entry the list written is
\* the list read; the write stores that list.
C21_ReleaseRemovesOnlyOwnEntry ==
  [][\A p \in Procs :
        /\ (callCount'[p] = callCount[p] + 1 /\ ret'[p].call = "releaseLock")
           => LET read == getLocks
                  own == HeldBy(p, ret'[p].postId, read)
                  kept == {read[k] : k \in (1..Len(read)) \ own}
              IN /\ {rd'[p][k] : k \in 1..Len(rd'[p])} = kept
                 /\ Len(rd'[p]) = Len(read) - Cardinality(own)
                 /\ own = {} => rd'[p] = read
        /\ (/\ pc[p] = "call_releaseLock_set" /\ pc'[p] = "idle"
            /\ ret[p].call = "releaseLock" /\ storageOk)
           => locks' = rd[p]]_vars

\* a session has released a post that the other session holds, and the other
\* session's entry is still stored
C21_Witness ==
  \E p \in Procs :
     /\ pc[p] = "idle"
     /\ ret[p].call = "releaseLock" /\ ret[p].value = "void"
     /\ \E k \in 1..Len(locks) : /\ locks[k].postId = ret[p].postId
                                 /\ locks[k].sessionId # SessionOf(p)

\* C22: an ownsLock call returns true exactly when the list it reads holds an
\* entry of the calling session for the post that is at most 5 minutes old,
\* and then, or when it reads no such entry at all, it returns at once and
\* writes nothing; when the entry is older it goes on to release it: the list
\* it writes is the list it then reads without that entry, and it returns
\* false.
C22_OwnsLockTrueIffFreshOwnEntry ==
  [][\A p \in Procs :
        /\ (callCount'[p] = callCount[p] + 1 /\ ret'[p].call = "ownsLock")
           => LET own == HeldBy(p, ret'[p].postId, getLocks)
                  fresh == {k \in own : now - getLocks[k].timestamp <= LOCK_TIMEOUT}
              IN /\ locks' = locks
                 /\ ret'[p].value = "true" <=> fresh # {}
                 /\ (fresh # {} \/ own = {}) => pc'[p] = "idle"
                 /\ own = {} => ret'[p].value = "false"
                 /\ (own # {} /\ fresh = {})
                    => (ret'[p].value = "pending" /\ pc'[p] = "call_ownsLock_release")
        /\ (pc[p] = "call_ownsLock_release" /\ pc'[p] # pc[p])
           => LET own == HeldBy(p, ret[p].postId, getLocks)
              IN /\ {rd'[p][k] : k \in 1..Len(rd'[p])}
                      = {getLocks[k] : k \in (1..Len(getLocks)) \ own}
                 /\ Len(rd'[p]) = Len(getLocks) - Cardinality(own)
        /\ (/\ pc[p] = "call_releaseLock_set" /\ pc'[p] = "idle"
            /\ ret[p].call = "ownsLock")
           => /\ ret'[p].value = "false"
              /\ storageOk => (locks' = rd[p] /\ HeldBy(p, ret[p].postId, locks') = {})]_vars

\* an ownsLock call has found the entry of its session older than 5 minutes
\* and is about to write the list without it
C22_Witness ==
  \E p \in Procs :
     /\ pc[p] = "call_releaseLock_set"
     /\ ret[p].call = "ownsLock"
     /\ \E k \in HeldBy(p, ret[p].postId, locks) : now - locks[k].timestamp > LOCK_TIMEOUT

\* C23: of the lock list a cleanup() call reads it writes back exactly the
\* entries that are at most 5 minutes old, and of the published cache it then
\* reads exactly the entries that are at most 24 hours old, whatever their
\* post and session.
C23_CleanupDropsExactlyTheOld ==
  [][\A p \in Procs :
        /\ (callCount'[p] = callCount[p] + 1 /\ ret'[p].call = "cleanup")
           => LET young == {k \in 1..Len(getLocks) :
                              now - getLocks[k].timestamp <= LOCK_TIMEOUT}
              IN /\ {rd'[p][k] : k \in 1..Len(rd'[p])} = {getLocks[k] : k \in young}
                 /\ Len(rd'[p]) = Cardinality(young)
        /\ (pc[p] = "call_cleanup_setLocks" /\ pc'[p] # pc[p] /\ storageOk)
           => locks' = rd[p]
        /\ (pc[p] = "call_cleanup_getPublished" /\ pc'[p] # pc[p])
           => LET young == {k \in 1..Len(getPublishedPosts) :
                              now - getPublishedPosts[k].timestamp <= PUBLISHED_RETENTION}
              IN /\ {rd'[p][k] : k \in 1..Len(rd'[p])}
                      = {getPublishedPosts[k] : k \in young}
                 /\ Len(rd'[p]) = Cardinality(young)
        /\ (pc[p] = "call_cleanup_setPublished" /\ pc'[p] # pc[p] /\ storageOk)
           => publishedPosts' = rd[p]]_vars

\* a cleanup() call has kept a lock exactly 5 minutes old and is about to write
\* a published cache without an entry older than 24 hours and with one exactly
\* 24 hours old
C23_Witness ==
  \E p \in Procs :
     /\ pc[p] = "call_cleanup_setPublished"
     /\ \E k \in 1..Len(locks) : now - locks[k].timestamp = LOCK_TIMEOUT
     /\ \E k \in 1..Len(publishedPosts) :
           now - publishedPosts[k].timestamp > PUBLISHED_RETENTION
     /\ Len(rd[p]) = 1
     /\ now - rd[p][1].timestamp = PUBLISHED_RETENTION

\* C24: a tick ends only when no candidate is left, and a candidate leaves the
\* list of the tick only in an iteration of the loop that either skips it or
\* invokes the publish workflow for it; so whatever the outcome of a workflow
\* or of the status update that follows it, the candidates after it are still
\* attempted.
C24_FailureDoesNotBlockBatch ==
  [][\A p \in Procs :
        /\ (pc[p] # "idle" /\ pc'[p] = "idle")
           => \/ pc[p] = "loop" /\ cand[p] = <<>>
              \/ pc[p] = "filter" /\ cand'[p] = <<>>
        /\ (pc[p] # "filter" /\ cand'[p] # cand[p])
           => /\ pc[p] = "loop"
              /\ cand'[p] = Tail(cand[p])
              /\ \/ pc'[p] = "loop" /\ cur'[p] = cur[p]
                 \/ pc'[p] = "step1" /\ cur'[p] = Head(cand[p])
        /\ (pc[p] \in WorkflowPcs \cup {"updatePostStatus"}
            /\ pc'[p] \notin WorkflowPcs \cup {"updatePostStatus"})
           => (pc'[p] = "loop" /\ cand'[p] = cand[p])]_vars

\* after a rejected capability call for the first candidate of its tick, the
\* loop has invoked the workflow for the second one
C24_Witness ==
  \E p \in Procs :
     /\ ticks = 1 /\ failures > 0
     /\ pc[p] = "step1"
     /\ cur[p].id = 2

\* C25: in one tab, a workflow whose decrypt was rejected (no primary publish
\* call made) or whose primary publish call was rejected runs releaseLock
\* and nothing else of the lock manager, after which its session holds no
\* lock entry for the post; the scheduler loop then calls updatePostStatus
\* once for that post, which when it resolves appends a revision of the post
\* with status failed, and the published cache has no entry for the post.
C25_FailureMarksFailedAndReleases ==
  [][\A p \in Procs :
        LET Failed == \/ err[p] = ErrDecrypt
                      \/ err[p] = ErrRelay /\ pubId[p] = 0
        IN /\ (pc[p] \in {"decrypt", "publish"} /\ err'[p] # NoError)
              => /\ err'[p] = IF pc[p] = "decrypt" THEN ErrDecrypt ELSE ErrRelay
                 /\ pubId'[p] = 0
                 /\ todo'[p] = <<<<"release", 0>>>>
                 /\ pc'[p] = "storage_get"
                 /\ pc[p] = "decrypt" => primary' = primary
                 /\ pc[p] = "publish" => primary' = primary \cup {PrimaryCall(p, 0)}
                 /\ publishedPosts' = publishedPosts
           /\ (pc[p] = "storage_set" /\ Failed /\ pc'[p] # pc[p])
              => /\ pc'[p] = "updatePostStatus"
                 /\ upd'[p] = "none"
                 /\ OwnLocks(p, getLocks') = {}
                 /\ publishedPosts' = publishedPosts
           /\ (pc[p] = "updatePostStatus" /\ Failed /\ pc'[p] # pc[p])
              => /\ pc'[p] = "loop"
                 /\ upd[p] = "none" /\ upd'[p] \in {"ok", "error"}
                 /\ upd'[p] = "ok"
                    => /\ Len(log') = Len(log) + 1
                       /\ log'[Len(log')].d = cur[p].d
                       /\ log'[Len(log')].status = "failed"
                 /\ upd'[p] = "error" => log' = log
                 /\ OwnLocks(p, getLocks') = {}
                 /\ isAlreadyPublished(getPublishedPosts', cur[p].id, User) = 0
           /\ (pc'[p] = "updatePostStatus" /\ pc[p] # pc'[p])
              => pc[p] = "storage_set" /\ upd[p] = "none"]_vars

\* the primary publish call was rejected, the lock the workflow held is gone
\* and the failed revision is on the relays
C25_Witness ==
  \E p \in Procs :
    /\ storageOk
    /\ pc[p] = "loop" /\ err[p] = ErrRelay /\ pubId[p] = 0
    /\ PrimaryCall(p, 0) \in primary
    /\ upd[p] = "ok"
    /\ log[Len(log)].status = "failed" /\ log[Len(log)].d = cur[p].d
    /\ OwnLocks(p, getLocks) = {}

\* C26: once the timer of a scheduler loop is cleared it stays cleared and the
\* loop starts no tick; a publish workflow that is running when the timer is
\* cleared still comes to its end, at which its session holds no lock entry
\* for the post and, when it returned without an error, the newest revision of
\* the post has status published and the published cache has its entry
\* (workflows for whose two events the bound on event ids leaves room).
C26_TeardownStopsTicksOnly ==
  /\ [][\A p \in Procs :
          timer[p] = "cleared"
          => /\ timer'[p] = "cleared"
             /\ ticks' = ticks
             /\ ~(pc[p] = "idle" /\ pc'[p] # "idle")]_vars
  /\ \A p \in Procs :
        (timer[p] = "cleared" /\ pc[p] \in WorkflowPcs /\ nextId < MaxEvents)
        ~> (/\ timer[p] = "cleared"
            /\ pc[p] \in {"loop", "updatePostStatus"} /\ cur[p] # NoPost
            /\ OwnLocks(p, getLocks) = {}
            /\ err[p] = NoError
               => /\ pubId[p] # 0
                  /\ StatusOf(log, cur[p].d) = "published"
                  /\ storageOk
                     => isAlreadyPublished(getPublishedPosts, cur[p].id, User)
                        = pubId[p])

\* the timer was cleared while the workflow ran, and the workflow has returned
\* with the status update, the cache record and the lock release done
C26_Witness ==
  \E p \in Procs :
    /\ timer[p] = "cleared" /\ storageOk
    /\ pc[p] = "loop" /\ err[p] = NoError /\ pubId[p] # 0
    /\ StatusOf(log, cur[p].d) = "published"
    /\ isAlreadyPublished(getPublishedPosts, cur[p].id, User) = pubId[p]
    /\ OwnLocks(p, getLocks) = {}

\* C27: every event appended to the log is a revision built from a snapshot
\* the tab holds (the post of the running workflow or status update, or a
\* post of the query data for a cancel or a direct status update), and read
\* back by the parser it has the slug, scheduled instant, kind, title and
\* encrypted content of that snapshot; a status-updater revision also has the
\* published-content reference of the snapshot whenever that had one.
C27_RevisionKeepsThePost ==
  [][Len(log') > Len(log)
     => LET rev == parseScheduledPost(log'[Len(log')])
            Same(post) == /\ rev.d = post.d
                          /\ rev.scheduledAt = post.scheduledAt
                          /\ rev.postKind = post.postKind
                          /\ rev.title = post.title
                          /\ rev.content = post.content
            Kept(post) == post.publishedEventId # 0
                          => rev.publishedEventId = post.publishedEventId
        IN /\ Len(log') = Len(log) + 1
           /\ \/ \E p \in Procs :
                    /\ pc[p] = "statusUpdate" /\ pc'[p] # pc[p]
                    /\ Same(cur[p])
                    /\ rev.status = "published"
                    /\ rev.publishedEventId = pubId[p]
              \/ \E p \in Procs :
                    /\ pc[p] = "updatePostStatus" /\ pc'[p] # pc[p]
                    /\ Same(cur[p]) /\ Kept(cur[p])
                    /\ rev.status = "failed"
              \/ /\ pc' = pc
                 /\ \E i \in 1..Len(qc["sA"]) :
                       /\ Same(qc["sA"][i]) /\ Kept(qc["sA"][i])
                       /\ rev.status \in {"failed", "cancelled"}]_vars

\* a post whose tags read "01" and "1a" and which has a title and a reference
\* was revised by the status updater, and the revision has them
C27_Witness ==
  /\ Len(log) > 1
  /\ log[1].scheduled_at = <<"0", "1">> /\ log[1].post_kind = <<"1", "a">>
  /\ log[1].title = "title" /\ log[1].published_event_id = 1
  /\ log[Len(log)].status = "failed"
  /\ log[Len(log)].published_event_id = 1
  /\ log[Len(log)].title = "title"
  /\ parseInt(log[Len(log)].scheduled_at) = DueAt

\* C28: when the query of getNoteLikeCount resolves, the value returned is
\* the number of distinct pubkeys among the returned events that have a tag
\* named e whose value is the requested note id; an event without such a tag
\* adds nothing, and two events of one pubkey add one.
C28_LikeCountIsDistinctAuthors ==
  (count.pc = "done" /\ count.fn = "getNoteLikeCount" /\ count.outcome # <<>>
   /\ count.outcome[1] = "value")
  => LET likes == count.reply
         Likes(k) == \E j \in 1..Len(likes[k].tags) :
                        /\ Len(likes[k].tags[j]) >= 2
                        /\ likes[k].tags[j][1] = "e"
                        /\ likes[k].tags[j][2] = count.id
         authors == {pk \in {"p1", "p2"} :
                       \E k \in 1..Len(likes) : likes[k].pubkey = pk /\ Likes(k)}
     IN /\ count.outcome[2] = Cardinality(authors)
        /\ (\A k \in 1..Len(likes) : ~Likes(k)) => count.outcome[2] = 0

\* two likes of the note by one pubkey and no other like were counted as one
C28_Witness ==
  /\ count.pc = "done" /\ count.fn = "getNoteLikeCount"
  /\ Len(count.reply) = 2
  /\ count.reply[1].pubkey = count.reply[2].pubkey
  /\ count.reply[1].tags = <<<<"e", count.id>>>>
  /\ count.reply[2].tags = <<<<"e", Repeat("b", 64)>>, <<"e", count.id>>>>
  /\ count.outcome = <<"value", 1>>

\* C29: a call of a count utility with an identifier that is not 64 hex
\* digits ends with the utility's 'Invalid ... format' error without a query
\* made; when the query rejects with an error named AbortError the call ends
\* with the utility's '... timed out after <timeout>ms' error, and when it
\* rejects with anything else the call ends with that same value.
C29_CountErrors ==
  [][count' # count
     => /\ (count.pc = "idle" /\ ~(/\ Len(count'.id) = 64
                                    /\ \A i \in 1..Len(count'.id) :
                                          count'.id[i] \in HexChars))
           => /\ count'.pc = "done" /\ count'.queries = 0
              /\ count'.outcome[1] = "error"
              /\ count'.outcome[2].message =
                    IF count'.fn = "getFollowerCount"
                    THEN <<"Invalid pubkey format. Expected 64 character hex string.">>
                    ELSE <<"Invalid note ID format. Expected 64 character hex string.">>
        /\ (count.pc = "idle" /\ count'.pc = "query")
           => count'.queries = 1
        /\ (count.pc = "query" /\ count'.outcome[1] = "error")
           => LET error == count'.reply[1]
              IN IF error.name = "AbortError"
                 THEN count'.outcome[2].message =
                        <<IF count.fn = "getFollowerCount"
                          THEN "Follower count query timed out after "
                          ELSE "Note like count query timed out after ",
                          toString(count.timeout), "ms">>
                 ELSE count'.outcome[2] = error]_vars

\* a query that rejected with an AbortError under a timeout of 1000 ms ended
\* as the timed-out error of getFollowerCount
C29_Witness ==
  /\ count.pc = "done" /\ count.fn = "getFollowerCount"
  /\ count.queries = 1
  /\ count.reply = <<[isError |-> TRUE, name |-> "AbortError",
                      message |-> <<"Aborted">>]>>
  /\ count.outcome[1] = "error"
  /\ count.outcome[2].message =
        <<"Follower count query timed out after ",
          <<"1", "0", "0", "0">>, "ms">>

\* C30: a primary-content publish call is made only by an invocation of the
\* workflow that stands at the publish step, which it reaches only from a
\* decrypt that resolved, that from an ownsLock that found the session's
\* fresh entry, that from the re-check that found the post neither published
\* nor with a published-content reference, that from an acquireLock that
\* found no fresh entry of another session and wrote its own, and that from
\* a lookup that found no entry for the post and its owner in the published
\* cache; all of it for the one post the invocation was handed.
C30_PublishAfterAllChecks ==
  [][\A p \in Procs :
        LET Enters(from, to) == pc[p] # to /\ pc'[p] = to => pc[p] = from
            stored == getPublishedPosts
            held == getLocks
            currentPost == FindPost(qc[SessionOf(p)], cur[p].id)
        IN /\ (\E c \in primary' \ primary : c.proc = p)
              => pc[p] = "publish" /\ pc'[p] # pc[p]
           /\ Enters("decrypt", "publish")
           /\ Enters("ownsLock", "decrypt")
           /\ Enters("acquireLock_set", "ownsLock")
           /\ Enters("acquireLock_get", "acquireLock_set")
           /\ Enters("step1", "acquireLock_get")
           /\ (pc[p] = "step1" /\ pc'[p] = "acquireLock_get")
              => \A k \in 1..Len(stored) :
                    ~(stored[k].postId = cur[p].id /\ stored[k].pubkey = User)
           /\ (pc[p] = "acquireLock_get" /\ pc'[p] = "acquireLock_set")
              => \A k \in 1..Len(held) :
                    (held[k].postId = cur[p].id /\ held[k].pubkey = User
                     /\ held[k].sessionId # SessionOf(p))
                    => now - held[k].timestamp > LOCK_TIMEOUT
           /\ (pc[p] = "acquireLock_set" /\ pc'[p] = "ownsLock")
              => /\ currentPost.status # "published"
                 /\ currentPost.publishedEventId = 0
                 /\ storageOk => OwnLocks(p, locks') # {}
           /\ (pc[p] = "ownsLock" /\ pc'[p] = "decrypt")
              => \E k \in OwnLocks(p, held) :
                    now - held[k].timestamp <= LOCK_TIMEOUT
           /\ (pc[p] = "decrypt" /\ pc'[p] = "publish")
              => failures' = failures
           /\ (pc[p] \in WorkflowPcs /\ pc'[p] \in WorkflowPcs)
              => cur'[p] = cur[p]]_vars

\* the primary publish call of an invocation that still holds its lock has
\* just resolved
C30_Witness ==
  \E p \in Procs :
    /\ pc[p] = "statusUpdate" /\ pubId[p] # 0
    /\ PrimaryCall(p, pubId[p]) \in primary
    /\ OwnLocks(p, getLocks) # {}
    /\ isAlreadyPublished(getPublishedPosts, cur[p].id, User) = 0

\* C31: an iteration of the scheduler loop looks its candidate up by event
\* id in the query data its tab holds at that moment and in the stored
\* published cache. When the data has no such record, or the record is not
\* scheduled, or it carries a published-content reference, or the cache has
\* an entry for the post, the candidate is dropped with no workflow started,
\* no event published and nothing stored; otherwise the workflow is invoked
\* on that candidate.
C31_LoopRechecksBeforeInvoking ==
  [][\A p \in Procs :
        (pc[p] = "loop" /\ cand[p] # <<>> /\ cand'[p] # cand[p])
        => LET post == Head(cand[p])
               snapshot == qc[SessionOf(p)]
               found == {i \in 1..Len(snapshot) : snapshot[i].id = post.id}
               first == CHOOSE i \in found : \A j \in found : i <= j
               cached == \E i \in 1..Len(publishedPosts) :
                            /\ publishedPosts[i].postId = post.id
                            /\ publishedPosts[i].pubkey = User
               skipped == \/ found = {}
                          \/ snapshot[first].status # "scheduled"
                          \/ snapshot[first].publishedEventId # 0
                          \/ cached
           IN /\ cand'[p] = Tail(cand[p])
              /\ IF skipped
                 THEN /\ pc'[p] = "loop"
                      /\ cur'[p] = cur[p]
                      /\ UNCHANGED <<log, nextId, primary, locks,
                                     publishedPosts, qc>>
                 ELSE /\ pc'[p] = "step1"
                      /\ cur'[p] = post
                      /\ UNCHANGED <<log, nextId, primary>>]_vars

\* tab A is about to check a candidate that its query data still shows as
\* scheduled and unpublished, and that tab B has published and cached since
\* tab A selected it
C31_Witness ==
  /\ pc["a"] = "loop"
  /\ cand["a"] # <<>>
  /\ LET post == Head(cand["a"]) IN
     /\ isAlreadyPublished(publishedPosts, post.id, User) # 0
     /\ FindPost(qc["sA"], post.id) # NoPost
     /\ FindPost(qc["sA"], post.id).status = "scheduled"
     /\ FindPost(qc["sA"], post.id).publishedEventId = 0
     /\ \E c \in primary : c.proc = "b" /\ c.postId = post.id

\* C32: with working storage, when markAsPublished(postId, id, owner) has
\* returned, the stored cache holds exactly one entry for (postId, owner), it
\* carries the identifier passed, and isAlreadyPublished(postId, owner)
\* returns that identifier, whatever other entries the cache held.
C32_MarkedIsFoundAfterwards ==
  [][\A p \in Procs :
        (pc[p] = "call_markAsPublished_set" /\ pc'[p] = "idle" /\ storageOk)
        => LET own == {k \in 1..Len(publishedPosts') :
                         /\ publishedPosts'[k].postId = ret[p].postId
                         /\ publishedPosts'[k].pubkey = User}
           IN /\ Cardinality(own) = 1
              /\ \A k \in own : publishedPosts'[k].publishedEventId = 1
              /\ isAlreadyPublished(publishedPosts', ret[p].postId, User) = 1]_vars

\* C33: whatever acquireLock, releaseLock, ownsLock and cleanup calls the
\* sessions have made, and however their storage reads and writes were
\* interleaved, the stored lock list holds at most one entry for each
\* (post id, owner) pair.
C33_OneLockEntryPerPost ==
  \A i, j \in 1..Len(locks) :
     (locks[i].postId = locks[j].postId /\ locks[i].pubkey = locks[j].pubkey)
     => i = j

\* both sessions were told that they hold the lock for the same post, and
\* the store holds the entry of one of them next to an entry for another post
C33_Witness ==
  /\ ret["a"].call = "acquireLock" /\ ret["a"].value = "true"
  /\ ret["b"].call = "acquireLock" /\ ret["b"].value = "true"
  /\ ret["a"].postId = ret["b"].postId
  /\ \E k \in 1..Len(locks) : locks[k].postId = ret["a"].postId
  /\ \E k \in 1..Len(locks) : locks[k].postId # ret["a"].postId

\* C34: of two workflow invocations of one tab (same session token) that are
\* in flight for the same post, at most one has gone on to the
\* primary-content publish; and with working storage an invocation that is
\* between its lock verification and its last publish still finds its
\* session's lock entry stored when the other invocation has finished.
C34_OnePublisherPerSession ==
  \A p \in Procs : \A q \in Procs \ {p} :
     (SessionOf(p) = SessionOf(q) /\ cur[p] # NoPost /\ cur[p].id = cur[q].id)
     => /\ ~(/\ pc[p] \in {"publish", "statusUpdate"}
             /\ pc[q] \in {"publish", "statusUpdate"})
        /\ (/\ storageOk
            /\ pc[p] \in {"decrypt", "publish", "statusUpdate"}
            /\ pc[q] \in {"loop", "updatePostStatus"})
           => OwnLocks(p, locks) # {}

\* C35: the storage write that ends a releaseLock (called directly or from
\* ownsLock) or the lock part of a cleanup leaves in the stored list every
\* non-expired lock entry of a session other than the caller's, however the
\* reads and writes of the sessions were interleaved.
C35_NoForeignLockRemoved ==
  [][\A p \in Procs :
        (/\ pc[p] \in {"call_releaseLock_set", "call_cleanup_setLocks"}
         /\ pc'[p] # pc[p])
        => \A k \in 1..Len(locks) :
              (locks[k].sessionId # SessionOf(p) /\ ~isExpired(locks[k], now))
              => \E j \in 1..Len(locks') : locks'[j] = locks[k]]_vars

\* C36: while a workflow awaits decrypt, the primary publish or the status
\* update for a post, with the lock entry of its session stored, an
\* acquireLock for that post by another session finds the post locked and
\* does not go on to take the lock.
C36_NoAcquireWhileAwaiting ==
  [][\A p \in Procs : \A q \in Procs \ {p} :
        (/\ SessionOf(p) # SessionOf(q)
         /\ pc[p] \in {"decrypt", "publish", "statusUpdate"}
         /\ OwnLocks(p, getLocks) # {}
         /\ pc[q] = "acquireLock_get"
         /\ cur[q].id = cur[p].id
         /\ pc'[q] # pc[q])
        => pc'[q] # "acquireLock_set"]_vars

\* C37: a workflow passes its step-3 re-check and goes on to the lock
\* verification, decrypt and the primary-content publish only when the query
\* data of its tab holds a record with the identifier of the post and that
\* record reads scheduled; with no such record, or a cancelled or failed one,
\* it goes no further.
C37_PublishOnlyWhatTheSnapshotHolds ==
  [][\A p \in Procs :
        (pc[p] = "acquireLock_set" /\ pc'[p] = "ownsLock")
        => LET snapshot == qc[SessionOf(p)] IN
           \E i \in 1..Len(snapshot) :
              /\ snapshot[i].id = cur[p].id
              /\ snapshot[i].status = "scheduled"]_vars

\* C38: when tab A holds the stored lock for the due post while it awaits
\* decrypt, before any primary publish, then either tab A moves on, or
\* eventually tab B publishes the post or at least finds it still a candidate
\* with the lock no longer held against it.
C38_OrphanedLockIsTakenOver ==
  (/\ storageOk
   /\ pc["a"] = "decrypt"
   /\ OwnLocks("a", locks) # {}
   /\ primary = {})
  ~> (\/ pc["a"] # "decrypt"
      \/ \E c \in primary : c.proc = "b" /\ c.id # 0
      \/ \E i \in 1..Len(qc["sB"]) :
            /\ shouldPublish(qc["sB"][i], now, getPublishedPosts)
            /\ ~existingLock(getLocks, qc["sB"][i].id, User, "sB", now))

\* C39: the storage write that ends the published-cache part of a cleanup()
\* leaves in the cache every entry of a post whose scheduled instant is still
\* inside the grace window, so that a tick in that period finds the entry.
C39_CleanupKeepsRecentMarks ==
  [][\A p \in Procs :
        (pc[p] = "cleanup_setPublished" /\ pc'[p] # pc[p] /\ storageOk)
        => \A k \in 1..Len(publishedPosts) :
              (\E i \in 1..Len(log) :
                  /\ log[i].id = publishedPosts[k].postId
                  /\ parseScheduledPost(log[i]).scheduledAt >= now - GRACE_PERIOD)
              => isAlreadyPublished(publishedPosts', publishedPosts[k].postId,
                                    publishedPosts[k].pubkey)
                   = publishedPosts[k].publishedEventId]_vars

====
